---- MODULE Spec2Model ----
(***************************************************************************)
(* A model of the UI layout and surface-compositing engine of              *)
(* bevy-ascii-effect: the layered character surface (ui/buffer.rs,         *)
(* ui/character.rs), the position resolver (ui/position.rs, ui/util.rs,    *)
(* ui/bounds.rs), the two-phase layout tree walker (ui/position.rs and     *)
(* its earlier revision in ui/bounds.rs), the Buffers and drawers over the *)
(* surface (ui/buffer.rs), the extraction of the components and the        *)
(* button (ui/component), and the AsciiUiCommands builder (ui/command.rs). *)
(*                                                                         *)
(* Machine integers.  TLC's integers are 32-bit, so a u32 is held as the   *)
(* integer with the same 32-bit pattern: a u32 below 2^31 is itself, a u32 *)
(* k >= 2^31 is held as k - 2^32 (negative).  The casts `as u32` and       *)
(* `as i32` between the two 32-bit types keep the bits; what changes is    *)
(* the order and the arithmetic, which the U32* operators give.            *)
(***************************************************************************)
EXTENDS Integers, Sequences, FiniteSets, TLC

VARIABLES
    \* ---- AsciiSurface (ui/buffer.rs) ----
    width,          \* AsciiSurface.width
    height,         \* AsciiSurface.height
    data,           \* AsciiSurface.data: the cells, a sequence (index 0 is data[1])
    call,           \* the last Surface call: its name, arguments and the cell it found
    result,         \* what the last Surface call returned (the bytes of as_byte_vec)
    grid,           \* by coordinate, the character of the last write that changed the Surface
    writes,         \* number of set_character calls made so far
    poisoned,       \* is the Mutex of the cells poisoned
    written,        \* the Set characters the compositing calls handed to the Surface, in order
    \* ---- one resolution of a position (ui/position.rs, ui/bounds.rs) ----
    parent_bounds,  \* the parent_bounds argument
    position,       \* the AsciiPosition resolved
    child_bounds,   \* the child_bounds argument as the caller passes it
    resolve_op,     \* the function applied ("input" before it is)
    resolve_out,    \* what it left in child_bounds, or returned
    \* ---- the layout tree and its walker (ui/position.rs, ui/bounds.rs) ----
    walker,         \* which revision of the walker the build runs: "position" or "bounds"
    kind,           \* per entity: "camera", "node" (a layout node) or "empty" (neither)
    parent_of,      \* per entity: its Parent, 0 when it has none
    target_res,     \* AsciiCamera::target_res()
    node_position,  \* per node: its AsciiPosition
    local_bounds,   \* per node: its local AsciiBounds (the walker of ui/bounds.rs)
    global_bounds,  \* per node: the cached Bounds (AsciiNode.bounds, AsciiGlobalBounds.bounds)
    is_dirty,       \* per node: the is_dirty flag
    is_changed,     \* per node: Ref::is_changed() of its AsciiPosition (or local AsciiBounds)
    visibility_changed, \* per node: Ref::is_changed() of its InheritedVisibility
    node_changed,   \* per node: AsciiNode::changed()
    phase,          \* "update": systems may edit; "resolve": Phase 1 ran, Phase 2 is next
    panicked,       \* a system ran into todo!() and the schedule aborted
    entities,       \* the `entities` of the last Phase 1
    dirty,          \* the `dirty` of the last Phase 1
    events,         \* AsciiMarkDirtyEvents the last Phase 1 sent
    wrote,          \* did the last Phase 2 store a Bounds that differs from the cached one
    quiet,          \* did the last Phase 1 start with nothing edited since the pass before
    edited,         \* was anything edited since the last Phase 2
    passes,         \* Phase 2 runs completed so far
    edits,          \* edits made so far
    inherited_visibility, \* per node: InheritedVisibility::get()
    rendered,       \* the last extraction: the pass it followed, the nodes hidden
                    \* then, the nodes whose component's render it called
    \* ---- an AsciiBuffer over the Surface (ui/buffer.rs) ----
    buffer,         \* the AsciiBuffer a component draws through: bounds, clip_bounds
    \* ---- an AsciiUiCommands builder (ui/command.rs) ----
    commands,       \* current_entity, entity_stack, the entities spawned (their
                    \* parents and positions), the calls made, and current_entity
                    \* and entity_stack as they were before the last call
    \* ---- an AsciiButton (ui/component/button.rs) ----
    button          \* is_hovering, the inputs of the last update, the events it sent
                    \* and the hover events sent so far

surface_vars == <<width, height, data, call, result, grid, writes, poisoned, written>>

resolve_vars == <<parent_bounds, position, child_bounds, resolve_op, resolve_out>>

tree_vars == <<walker, kind, parent_of>>

layout_vars ==
    <<tree_vars, target_res, node_position, local_bounds, global_bounds, is_dirty,
      is_changed, visibility_changed, node_changed, phase, panicked, entities, dirty,
      events, wrote, quiet, edited, passes, edits, inherited_visibility, rendered>>

buffer_vars == <<buffer>>

builder_vars == <<commands>>

button_vars == <<button>>

vars ==
    <<surface_vars, resolve_vars, layout_vars, buffer_vars, builder_vars, button_vars>>

\* ------------------------------------------------------------------ bounds

\* Largest width and height of a Surface.
MaxDim == 2

\* Largest layer a written character carries.
MaxLayer == 1

\* Number of set_character calls in one behaviour.
MaxWrites == 2

\* Largest width and height of a parent Bounds a position is resolved against.
MaxExtent == 3

\* Entities of the layout tree: entity 1 is the root, the others are nodes below it.
NumEntities == 3

\* Edits (of a position, a visibility, a cached Bounds, the resolution) in one behaviour.
MaxEdits == 2

\* Layout passes in one behaviour.
MaxPasses == 2

\* ------------------------------------------------------------------ helpers

Min(a, b) == IF a <= b THEN a ELSE b

Max(a, b) == IF a >= b THEN a ELSE b

\* Option<T>: None is the empty sequence, Some(v) the sequence holding v.
None == <<>>

Some(v) == <<v>>

\* ------------------------------------------------------------------ characters

\* The largest glyph index into_u8 lets through.
MaxGlyph == 127

\* The largest colour index into_u8 lets through.
MaxColor == 15

Unset == [tag |-> "Unset"]

SetCharacter(index, text_color, background_color, layer) ==
    [tag |-> "Set", index |-> index, text_color |-> text_color,
     background_color |-> background_color, layer |-> layer]

IsSet(c) == c.tag = "Set"

\* The characters the calls of the model write: two glyphs (one of them the
\* last of the enumeration), two colour pairs, every layer up to MaxLayer.
Characters ==
    {Unset} \cup
    { SetCharacter(g[1], g[2], g[3], l) :
        g \in {<<3, 5, 2>>, <<MaxGlyph, MaxColor, 0>>}, l \in 0..MaxLayer }

\* AsciiCharacter::into_u8
into_u8(c) ==
    IF IsSet(c)
    THEN IF c.index > MaxGlyph \/ c.text_color > MaxColor \/ c.background_color > MaxColor
         THEN <<0, 0, 0, 0>>
         ELSE <<c.index, c.text_color, c.background_color, 1>>
    ELSE <<0, 0, 0, 0>>

\* ------------------------------------------------------------------ surface

\* AsciiSurface::new: width * height cells, all Unset.
surface_new(w, h) == [i \in 1..(w * h) |-> Unset]

\* calc_index without its test of x against the width.
calc_index_no_width_test(x, y) ==
    IF x < 0 \/ y < 0 \/ y >= height
    THEN None
    ELSE Some(x + (y * width))

\* calc_index counting down the columns instead of along the rows.
calc_index_column_major(x, y) ==
    IF x < 0 \/ y < 0 \/ x >= width \/ y >= height
    THEN None
    ELSE Some(y + (x * height))

\* AsciiSurface::calc_index
calc_index(x, y) ==
    IF x < 0 \/ y < 0 \/ x >= width \/ y >= height
    THEN None
    ELSE Some(x + (y * width))

\* The layer test with an Unset character refused on a Set cell.
layer_test_unset_refused(character, cell) ==
    CASE IsSet(character) /\ IsSet(cell) -> character.layer >= cell.layer
      [] IsSet(character) /\ ~IsSet(cell) -> TRUE
      [] OTHER -> FALSE

\* The layer test with a strict comparison of the layers.
layer_test_strict(character, cell) ==
    CASE IsSet(character) /\ IsSet(cell) -> character.layer > cell.layer
      [] IsSet(character) /\ ~IsSet(cell) -> TRUE
      [] ~IsSet(character) /\ IsSet(cell) -> TRUE
      [] OTHER -> FALSE

\* The layer test of AsciiSurface::set_character: does `character` replace `cell`?
layer_test(character, cell) ==
    CASE IsSet(character) /\ IsSet(cell) -> character.layer >= cell.layer
      [] IsSet(character) /\ ~IsSet(cell) -> TRUE
      [] ~IsSet(character) /\ IsSet(cell) -> TRUE
      [] OTHER -> FALSE

\* AsciiSurface::set_character on the cells `cells`: the cells after the call.
\* It returns at once when the lock of the cells is poisoned.
set_character_on(cells, x, y, character) ==
    LET index == calc_index(x, y) IN
    IF poisoned THEN cells
    ELSE IF index = None THEN cells
    ELSE IF index[1] < Len(cells)
         THEN IF layer_test(character, cells[index[1] + 1])
              THEN [cells EXCEPT ![index[1] + 1] = character]
              ELSE cells
         ELSE cells

\* AsciiSurface::set_character: the cells after the call.
set_character(x, y, character) == set_character_on(data, x, y, character)

RECURSIVE flatten(_)
\* Iterator::flatten over the 4-byte arrays of the cells, in order.
flatten(arrays) ==
    IF arrays = <<>> THEN <<>> ELSE Head(arrays) \o flatten(Tail(arrays))

\* AsciiSurface::as_byte_vec
as_byte_vec == flatten([i \in 1..Len(data) |-> into_u8(data[i])])

\* AsciiSurface::len
surface_len == width * height

\* The cell the Surface holds at index i (0-based), None when it holds none.
CellAt(cells, i) == IF i < Len(cells) THEN Some(cells[i + 1]) ELSE None

\* ------------------------------------------------------------------ surface actions

\* The coordinates a Surface of the largest size has.
Coordinates == (0..(MaxDim - 1)) \X (0..(MaxDim - 1))

\* Is (x, y) a coordinate of the Surface?
InRange(x, y) == x >= 0 /\ y >= 0 /\ x < width /\ y < height

\* No position is being resolved.
ResolveIdle ==
    /\ parent_bounds = [x |-> 0, y |-> 0, width |-> 0, height |-> 0, layer |-> 0]
    /\ position = [tag |-> "None"]
    /\ child_bounds = [x |-> 0, y |-> 0, width |-> 0, height |-> 0, layer |-> 0]
    /\ resolve_op = "input"
    /\ resolve_out = [tag |-> "None"]

\* No layout tree takes part.
LayoutIdle ==
    /\ walker = "position"
    /\ kind = <<>>
    /\ parent_of = <<>>
    /\ target_res = [x |-> 0, y |-> 0]
    /\ node_position = <<>>
    /\ local_bounds = <<>>
    /\ global_bounds = <<>>
    /\ is_dirty = <<>>
    /\ is_changed = <<>>
    /\ visibility_changed = <<>>
    /\ node_changed = <<>>
    /\ phase = "update"
    /\ panicked = FALSE
    /\ entities = {}
    /\ dirty = {}
    /\ events = 0
    /\ wrote = FALSE
    /\ quiet = FALSE
    /\ edited = FALSE
    /\ passes = 0
    /\ edits = 0
    /\ inherited_visibility = <<>>
    /\ rendered = [pass |-> 0, hidden |-> {}, nodes |-> {}]

\* No AsciiBuffer is drawn through.
BufferIdle ==
    buffer = [surface |-> 0,
              bounds |-> [x |-> 0, y |-> 0, width |-> 0, height |-> 0, layer |-> 0],
              clip_bounds |-> <<>>]

\* No builder is at work.
BuilderIdle ==
    commands = [current_entity |-> 0, entity_stack |-> <<>>, parents |-> <<>>,
                positions |-> <<>>, run |-> <<>>, before |-> 0, stack_before |-> <<>>]

\* No AsciiButton is updated.
ButtonIdle ==
    button = [is_hovering |-> FALSE, bounds |-> [x |-> 0, y |-> 0, width |-> 0,
                                                 height |-> 0, layer |-> 0],
              cursor |-> <<>>, just_pressed |-> FALSE, was_hovering |-> FALSE,
              sent |-> <<>>, hover_events |-> <<>>, updates |-> 0]

SurfaceInit ==
    /\ ResolveIdle
    /\ LayoutIdle
    /\ BufferIdle
    /\ BuilderIdle
    /\ ButtonIdle
    /\ width \in 0..MaxDim
    /\ height \in 0..MaxDim
    /\ data = surface_new(width, height)
    /\ call = [op |-> "new"]
    /\ result = <<>>
    /\ grid = [p \in Coordinates |-> Unset]
    /\ writes = 0
    /\ poisoned = FALSE
    /\ written = <<>>

\* A caller writes one character at (x, y), in range or one cell outside it.
SetCharacterCall ==
    /\ writes < MaxWrites
    /\ \E x \in -1..width, y \in -1..height, c \in Characters :
        /\ data' = set_character(x, y, c)
        /\ call' = [op |-> "set_character", x |-> x, y |-> y, character |-> c,
                    found |-> IF calc_index(x, y) = None THEN None
                              ELSE CellAt(data, calc_index(x, y)[1]),
                    changed |-> set_character(x, y, c) # data,
                    outcome |-> "returned"]
        /\ grid' = IF set_character(x, y, c) # data /\ <<x, y>> \in Coordinates
                   THEN [grid EXCEPT ![<<x, y>>] = c]
                   ELSE grid
    /\ result' = <<>>
    /\ writes' = writes + 1
    /\ UNCHANGED <<width, height, poisoned, written>>

\* The upload path serialises the Surface; lock().expect(..) panics on a
\* poisoned lock.
AsByteVecCall ==
    /\ result' = IF poisoned THEN <<>> ELSE as_byte_vec
    /\ call' = [op |-> "as_byte_vec",
                outcome |-> IF poisoned THEN "panicked" ELSE "returned"]
    /\ UNCHANGED <<width, height, poisoned, written, data, grid, writes>>

\* AsciiSurface::clear: Vec::clear on the cells; width and height stay.
\* lock().expect(..) panics on a poisoned lock.
ClearCall ==
    /\ data' = IF poisoned THEN data ELSE <<>>
    /\ call' = [op |-> "clear", outcome |-> IF poisoned THEN "panicked" ELSE "returned"]
    /\ result' = <<>>
    /\ grid' = IF poisoned THEN grid ELSE [p \in Coordinates |-> Unset]
    /\ UNCHANGED <<width, height, poisoned, written, writes>>

SurfaceNext ==
    \/ SetCharacterCall /\ UNCHANGED <<resolve_vars, layout_vars, buffer_vars, builder_vars,
            button_vars>>
    \/ AsByteVecCall /\ UNCHANGED <<resolve_vars, layout_vars, buffer_vars, builder_vars,
            button_vars>>
    \/ ClearCall /\ UNCHANGED <<resolve_vars, layout_vars, buffer_vars, builder_vars,
            button_vars>>

SpecSurface == SurfaceInit /\ [][SurfaceNext]_vars

\* ------------------------------------------------------------------ claims on the Surface

\* The last call was set_character on a coordinate of the Surface that holds a cell.
WroteInRange ==
    /\ call.op = "set_character"
    /\ call.found # None

\* The cell the Surface now holds where the last set_character aimed.
Target == data[calc_index(call.x, call.y)[1] + 1]

C2_LayerOcclusion ==
    (WroteInRange /\ IsSet(call.character))
        => IF ~IsSet(call.found[1]) \/ call.character.layer >= call.found[1].layer
           THEN Target = call.character
           ELSE Target = call.found[1] /\ ~call.changed

C2_Witness ==
    /\ WroteInRange
    /\ IsSet(call.character)
    /\ IsSet(call.found[1])
    /\ call.character.layer = call.found[1].layer
    /\ call.character # call.found[1]
    /\ Target = call.character

\* C3: set_character outside the Surface (x < 0, y < 0, x >= width or
\* y >= height) changes no cell and returns normally, whatever the character
\* and the state of the Surface.
C3_OutOfRangeIsNoOp ==
    (call.op = "set_character" /\ ~InRange(call.x, call.y))
        => ~call.changed /\ call.found = None

C3_Witness ==
    /\ call.op = "set_character"
    /\ call.x = width
    /\ call.y = 0
    /\ height > 1
    /\ IsSet(call.character)
    /\ \E i \in 1..Len(data) : IsSet(data[i])

\* The 4 bytes a character is exported as.
ExportOf(c) ==
    IF IsSet(c) THEN <<c.index, c.text_color, c.background_color, 1>>
    ELSE <<0, 0, 0, 0>>

\* C4: as_byte_vec gives 4 bytes per cell in row-major order: the cell written
\* at (x, y) is at bytes 4*(y*width+x) .. 4*(y*width+x)+3, [glyph, fg, bg, 1]
\* when Set and [0,0,0,0] when Unset (for a Surface that holds its cells, that
\* is, one that was not cleared).
C4_RowMajorExport ==
    (call.op = "as_byte_vec" /\ Len(data) = width * height)
        => /\ Len(result) = 4 * width * height
           /\ \A x \in 0..(width - 1), y \in 0..(height - 1) :
                LET offset == 4 * (y * width + x) IN
                <<result[offset + 1], result[offset + 2],
                  result[offset + 3], result[offset + 4]>> = ExportOf(grid[<<x, y>>])

C4_Witness ==
    /\ call.op = "as_byte_vec"
    /\ width = 2
    /\ height = 2
    /\ grid = [p \in Coordinates |->
                 IF p = <<0, 1>> /\ p \in Coordinates THEN SetCharacter(3, 5, 2, 0) ELSE Unset]
    /\ result = <<0, 0, 0, 0, 0, 0, 0, 0, 3, 5, 2, 1, 0, 0, 0, 0>>

\* ------------------------------------------------------------------ numbers

\* `v as u32` of an i32 and `v as i32` of a u32: the same 32 bits (see the head
\* of the module for how a u32 is held).
I32AsU32(v) == v

U32AsI32(v) == v

\* a < b between u32 values.
U32Lt(a, b) == IF (a < 0) = (b < 0) THEN a < b ELSE b < 0

U32Le(a, b) == a = b \/ U32Lt(a, b)

\* u32::min
U32Min(a, b) == IF U32Lt(b, a) THEN b ELSE a

\* u32::saturating_sub
saturating_sub(a, b) == IF U32Lt(a, b) THEN 0 ELSE a - b

\* `f as u32` of the f32 n/d (d > 0): the integer part, 0 for a negative f.
F32AsU32(n, d) == IF n < 0 THEN 0 ELSE n \div d

\* ------------------------------------------------------------------ Value

Px(v) == [tag |-> "Px", v |-> v]

\* Percent(num / den), a fraction an f32 holds exactly.
Percent(num, den) == [tag |-> "Percent", num |-> num, den |-> den]

\* Value::pixel_u32
pixel_u32(value, parent_dim) ==
    IF value.tag = "Px"
    THEN I32AsU32(value.v)
    ELSE F32AsU32(parent_dim * value.num, value.den)

\* ------------------------------------------------------------------ AsciiBounds

AsciiBounds(x, y, w, h, layer) ==
    [x |-> x, y |-> y, width |-> w, height |-> h, layer |-> layer]

\* AsciiBounds::default (derived)
bounds_default == AsciiBounds(0, 0, 0, 0, 0)

\* AsciiBounds::from_dims
from_dims(w, h) == AsciiBounds(0, 0, w, h, 0)

\* AsciiBounds::relative
bounds_relative(self, child) ==
    AsciiBounds(self.x + child.x, self.y + child.y, child.width, child.height,
                child.layer + self.layer + 1)

\* The centre offset rounded up instead of down.
center_offset_rounded_up(extent, size) ==
    IF U32Lt(extent, size) THEN 0 ELSE Max(0, (extent - size + 1) \div 2)

\* ((extent as f32 / 2.0) - (size as f32 / 2.0)).floor().max(0.0) as i32
center_offset(extent, size) ==
    IF U32Lt(extent, size) THEN 0 ELSE Max(0, (extent - size) \div 2)

\* AsciiBounds::aligned
bounds_aligned(self, w, h, horizontal_alignment, vertical_alignment) ==
    LET x == CASE horizontal_alignment = "Left" -> self.x
               [] horizontal_alignment = "Center" -> self.x + center_offset(self.width, w)
               [] horizontal_alignment = "Right" ->
                    self.x + U32AsI32(saturating_sub(self.width, w))
        y == CASE vertical_alignment = "Top" -> self.y
               [] vertical_alignment = "Center" -> self.y + center_offset(self.height, h)
               [] vertical_alignment = "Bottom" ->
                    self.y + U32AsI32(saturating_sub(self.height, h))
    IN AsciiBounds(x, y, U32Min(w, self.width), U32Min(h, self.height), self.layer + 1)

\* ------------------------------------------------------------------ AsciiPosition

Aligned(w, h, horizontal, vertical) ==
    [tag |-> "Aligned", width |-> w, height |-> h,
     horizontal |-> horizontal, vertical |-> vertical]

Padded(top, bottom, left, right) ==
    [tag |-> "Padded", top |-> top, bottom |-> bottom, left |-> left, right |-> right]

VerticalSlice(total_silces, slice) ==
    [tag |-> "VerticalSlice", total_silces |-> total_silces, slice |-> slice]

HorizontalSlice(total_silces, slice) ==
    [tag |-> "HorizontalSlice", total_silces |-> total_silces, slice |-> slice]

Relative(x, y, w, h, layer) ==
    [tag |-> "Relative", x |-> x, y |-> y, width |-> w, height |-> h, layer |-> layer]

Absolute(bounds) == [tag |-> "Absolute", bounds |-> bounds]

\* What a call that runs into todo!() leaves: no Bounds, the thread panics.
Todo == [tag |-> "todo"]

\* Did the resolution end in a Bounds?
IsBounds(out) == "layer" \in DOMAIN out

\* format_bounds_aligned with the width and height left unclamped.
format_bounds_aligned_unclamped(w, h, horizontal, vertical, parent, child) ==
    LET pw == pixel_u32(w, parent.width)
        ph == pixel_u32(h, parent.height)
        x == CASE horizontal = "Left" -> 0
               [] horizontal = "Center" -> center_offset(parent.width, pw)
               [] horizontal = "Right" ->
                    U32AsI32(saturating_sub(parent.width, pw))
        y == CASE vertical = "Top" -> 0
               [] vertical = "Center" -> center_offset(parent.height, ph)
               [] vertical = "Bottom" ->
                    U32AsI32(saturating_sub(parent.height, ph))
    IN [child EXCEPT !.x = parent.x + x, !.y = parent.y + y,
                     !.width = pw, !.height = ph, !.layer = parent.layer + 1]

\* AsciiPosition::format_bounds_aligned
format_bounds_aligned(w, h, horizontal_alignment, vertical_alignment, parent, child) ==
    LET pw == pixel_u32(w, parent.width)
        ph == pixel_u32(h, parent.height)
        x == CASE horizontal_alignment = "Left" -> 0
               [] horizontal_alignment = "Center" -> center_offset(parent.width, pw)
               [] horizontal_alignment = "Right" ->
                    U32AsI32(saturating_sub(parent.width, pw))
        y == CASE vertical_alignment = "Top" -> 0
               [] vertical_alignment = "Center" -> center_offset(parent.height, ph)
               [] vertical_alignment = "Bottom" ->
                    U32AsI32(saturating_sub(parent.height, ph))
    IN [child EXCEPT !.x = parent.x + x, !.y = parent.y + y,
                     !.width = U32Min(pw, parent.width),
                     !.height = U32Min(ph, parent.height),
                     !.layer = parent.layer + 1]

\* AsciiPosition::format_bounds_padded
format_bounds_padded(padding, parent, child) ==
    LET horizontal_difference ==
            U32AsI32(parent.width) - U32AsI32(padding.left) - U32AsI32(padding.right)
        vertical_difference ==
            U32AsI32(parent.height) - U32AsI32(padding.top) - U32AsI32(padding.bottom)
    IN IF horizontal_difference <= 0 \/ vertical_difference <= 0
       THEN child
       ELSE [child EXCEPT !.x = U32AsI32(padding.left), !.y = U32AsI32(padding.top),
                          !.width = parent.width - (padding.left + padding.right),
                          !.height = parent.height - (padding.top + padding.bottom)]

\* format_bounds_relative that puts the child on the parent's layer plus its own.
format_bounds_relative_same_layer(x, y, w, h, layer, parent, child) ==
    [child EXCEPT !.x = x + parent.x, !.y = y + parent.y,
                  !.width = pixel_u32(w, parent.width),
                  !.height = pixel_u32(h, parent.height),
                  !.layer = layer + parent.layer]

\* AsciiPosition::format_bounds_relative
format_bounds_relative(x, y, w, h, layer, parent, child) ==
    [child EXCEPT !.x = x + parent.x, !.y = y + parent.y,
                  !.width = pixel_u32(w, parent.width),
                  !.height = pixel_u32(h, parent.height),
                  !.layer = layer + parent.layer + 1]

\* AsciiPosition::format_bounds
format_bounds_slices_skipped(pos, parent, child) ==
    CASE pos.tag = "Aligned" ->
            format_bounds_aligned(pos.width, pos.height, pos.horizontal, pos.vertical,
                                  parent, child)
      [] pos.tag = "Padded" -> format_bounds_padded(pos, parent, child)
      [] pos.tag = "VerticalSlice" -> child
      [] pos.tag = "HorizontalSlice" -> child
      [] pos.tag = "Relative" ->
            format_bounds_relative(pos.x, pos.y, pos.width, pos.height, pos.layer,
                                   parent, child)
      [] pos.tag = "Absolute" -> Todo

format_bounds(pos, parent, child) ==
    CASE pos.tag = "Aligned" ->
            format_bounds_aligned(pos.width, pos.height, pos.horizontal, pos.vertical,
                                  parent, child)
      [] pos.tag = "Padded" -> format_bounds_padded(pos, parent, child)
      [] pos.tag = "VerticalSlice" -> Todo
      [] pos.tag = "HorizontalSlice" -> Todo
      [] pos.tag = "Relative" ->
            format_bounds_relative(pos.x, pos.y, pos.width, pos.height, pos.layer,
                                   parent, child)
      [] pos.tag = "Absolute" -> Todo

\* AsciiPosition::create_bounds_aligned
create_bounds_aligned(w, h, horizontal_alignment, vertical_alignment, parent) ==
    format_bounds_aligned(w, h, horizontal_alignment, vertical_alignment, parent,
                          bounds_default)

\* AsciiPosition::create_bounds_relative
create_bounds_relative(x, y, w, h, layer, parent) ==
    format_bounds_relative(x, y, w, h, layer, parent, bounds_default)

\* AsciiPosition::create_bounds
create_bounds(pos, parent) ==
    CASE pos.tag = "Aligned" ->
            create_bounds_aligned(pos.width, pos.height, pos.horizontal, pos.vertical,
                                  parent)
      [] pos.tag = "Padded" -> Todo
      [] pos.tag = "VerticalSlice" -> Todo
      [] pos.tag = "HorizontalSlice" -> Todo
      [] pos.tag = "Relative" ->
            create_bounds_relative(pos.x, pos.y, pos.width, pos.height, pos.layer, parent)
      [] pos.tag = "Absolute" -> Todo

\* ------------------------------------------------------------------ one resolution

\* The lengths the resolved positions ask for: a negative, a zero, a fitting and
\* an oversized pixel count, and half, all and one and a half of the parent.
Values ==
    {Px(-1), Px(0), Px(2), Px(MaxExtent + 1),
     Percent(1, 2), Percent(1, 1), Percent(3, 2)}

HorizontalAlignments == {"Left", "Center", "Right"}

VerticalAlignments == {"Top", "Center", "Bottom"}

Paddings == {0, 1, MaxExtent}

\* The parent of the worked examples: 40 cells by 20 at the origin, on layer 0.
ExampleParent == AsciiBounds(0, 0, 40, 20, 0)

\* The positions of the worked examples: 10 by 4 in the centre, and all of the parent.
ExamplePositions ==
    { Aligned(Px(10), Px(4), "Center", "Center"),
      Relative(0, 0, Percent(1, 1), Percent(1, 1), 0) }

Positions ==
    { Aligned(w, h, ha, va) :
        w \in Values, h \in Values, ha \in HorizontalAlignments, va \in VerticalAlignments }
    \cup { Relative(x, 0, w, h, l) :
        x \in {-1, 2}, w \in Values, h \in Values, l \in 0..MaxLayer }
    \cup { Padded(t, b, l, r) : t \in Paddings, b \in Paddings, l \in Paddings, r \in Paddings }
    \cup { VerticalSlice(2, 0), HorizontalSlice(2, 1), Absolute(bounds_default) }
    \cup ExamplePositions

Parents ==
    { AsciiBounds(x, 1, w, h, l) :
        x \in {-2, 3}, w \in 0..MaxExtent, h \in 0..MaxExtent, l \in 0..MaxLayer }
    \cup {ExampleParent}

\* The inputs of one resolution.  The callers of the repository pass a default
\* child_bounds; a Padded position, which may leave it as it is, is also given
\* one that holds an earlier result.
ResolveInit ==
    /\ parent_bounds \in Parents
    /\ position \in Positions
    /\ child_bounds \in {bounds_default, AsciiBounds(1, 1, 2, 2, MaxLayer + 1)}
    /\ child_bounds # bounds_default => position.tag = "Padded"
    /\ resolve_op = "input"
    /\ resolve_out = [tag |-> "None"]

\* No Surface takes part.
SurfaceIdle ==
    /\ width = 0
    /\ height = 0
    /\ data = <<>>
    /\ call = [op |-> "new"]
    /\ result = <<>>
    /\ grid = [p \in Coordinates |-> Unset]
    /\ writes = 0
    /\ poisoned = FALSE
    /\ written = <<>>

FormatBoundsCall ==
    /\ resolve_op = "input"
    /\ resolve_op' = "format_bounds"
    /\ resolve_out' = format_bounds(position, parent_bounds, child_bounds)
    /\ UNCHANGED <<parent_bounds, position, child_bounds>>

CreateBoundsCall ==
    /\ resolve_op = "input"
    /\ child_bounds = bounds_default
    /\ resolve_op' = "create_bounds"
    /\ resolve_out' = create_bounds(position, parent_bounds)
    /\ UNCHANGED <<parent_bounds, position, child_bounds>>

\* AsciiBounds::relative on the local Bounds a Relative position in pixels spells.
BoundsRelativeCall ==
    /\ resolve_op = "input"
    /\ position.tag = "Relative"
    /\ position.width.tag = "Px"
    /\ position.height.tag = "Px"
    /\ resolve_op' = "relative"
    /\ resolve_out' = bounds_relative(parent_bounds,
            AsciiBounds(position.x, position.y, I32AsU32(position.width.v),
                        I32AsU32(position.height.v), position.layer))
    /\ UNCHANGED <<parent_bounds, position, child_bounds>>

\* AsciiBounds::aligned with the size an Aligned position in pixels spells.
BoundsAlignedCall ==
    /\ resolve_op = "input"
    /\ position.tag = "Aligned"
    /\ position.width.tag = "Px"
    /\ position.height.tag = "Px"
    /\ resolve_op' = "aligned"
    /\ resolve_out' = bounds_aligned(parent_bounds, I32AsU32(position.width.v),
                                     I32AsU32(position.height.v),
                                     position.horizontal, position.vertical)
    /\ UNCHANGED <<parent_bounds, position, child_bounds>>

\* AsciiBounds::is_within with the far edges left out.
is_within_exclusive(self, x, y) ==
    /\ x >= self.x
    /\ x < self.x + U32AsI32(self.width)
    /\ y >= self.y
    /\ y < self.y + U32AsI32(self.height)

\* AsciiBounds::is_within
is_within(self, x, y) ==
    /\ x >= self.x
    /\ x <= self.x + U32AsI32(self.width)
    /\ y >= self.y
    /\ y <= self.y + U32AsI32(self.height)

\* The distances from a Bounds' corner that are tested: around the near edge,
\* and around the far edge of an extent.
Offsets(extent) == (-1..(MaxExtent + 1)) \cup {extent, extent + 1}

\* AsciiBounds::is_within on the parent Bounds, or on the Bounds a Relative
\* position of width Px(-1) resolves to against them.
IsWithinCall ==
    /\ resolve_op = "input"
    /\ position.tag = "Absolute"
    /\ resolve_op' = "is_within"
    /\ \E self \in {parent_bounds,
                    create_bounds_relative(0, 0, Px(-1), Percent(1, 1), 0, parent_bounds)} :
        \E dx \in Offsets(parent_bounds.width), dy \in Offsets(parent_bounds.height) :
            resolve_out' = [tag |-> "is_within", self |-> self,
                            x |-> self.x + dx, y |-> self.y + dy,
                            within |-> is_within(self, self.x + dx, self.y + dy)]
    /\ UNCHANGED <<parent_bounds, position, child_bounds>>

ResolveNext ==
    \/ FormatBoundsCall /\ UNCHANGED <<surface_vars, layout_vars, buffer_vars, builder_vars,
            button_vars>>
    \/ CreateBoundsCall /\ UNCHANGED <<surface_vars, layout_vars, buffer_vars, builder_vars,
            button_vars>>
    \/ BoundsRelativeCall /\ UNCHANGED <<surface_vars, layout_vars, buffer_vars, builder_vars,
            button_vars>>
    \/ BoundsAlignedCall /\ UNCHANGED <<surface_vars, layout_vars, buffer_vars, builder_vars,
            button_vars>>
    \/ IsWithinCall /\ UNCHANGED <<surface_vars, layout_vars, buffer_vars, builder_vars,
            button_vars>>

\* One resolution is set up; no Surface and no layout tree is in play.
ResolveStart ==
    /\ ResolveInit
    /\ SurfaceIdle
    /\ LayoutIdle
    /\ BufferIdle
    /\ BuilderIdle
    /\ ButtonIdle

SpecResolve == ResolveStart /\ [][ResolveNext]_vars

\* ------------------------------------------------------------------ claims on one resolution

\* A position of one of the three variants was resolved and a Bounds came out.
Resolved ==
    /\ resolve_op # "input"
    /\ position.tag \in {"Relative", "Aligned", "Padded"}
    /\ IsBounds(resolve_out)

\* C6: the Bounds resolved for a Relative, Aligned or Padded position has a layer
\* strictly above the layer of the parent Bounds it was resolved against.
C6_LayerAboveParent ==
    Resolved => U32Lt(parent_bounds.layer, resolve_out.layer)

\* The resolved rectangle is no wider and no higher than the parent's.
Contained ==
    /\ U32Le(resolve_out.width, parent_bounds.width)
    /\ U32Le(resolve_out.height, parent_bounds.height)

Entity == 1..NumEntities

\* The entities the walker's queries match: those with the node's components.
Nodes == {e \in Entity : kind[e] = "node"}

\* The Children component of an entity.
Children(e) == {c \in Entity : parent_of[c] = e}

\* get_children that stops at the children, without the recursive call.
RECURSIVE get_children_one_level(_)
get_children_one_level(current) ==
    IF kind[current] # "node" THEN {} ELSE Children(current)

\* get_children (ui/position.rs and ui/bounds.rs): what it pushes for `current`.
RECURSIVE get_children(_)
get_children(current) ==
    IF kind[current] # "node"
    THEN {}
    ELSE UNION { {child} \cup get_children(child) : child \in Children(current) }

\* One event for every dirty node instead of one for the set.
events_sent_per_node(dirty_set) == Cardinality(dirty_set)

\* mark_positions_dirty: the events it sends for its dirty set.
events_sent(dirty_set) == IF dirty_set # {} THEN 1 ELSE 0

\* from_dims as ui/position.rs calls it for a camera.
camera_bounds_position == from_dims(target_res.x, target_res.y)

\* from_dims as ui/bounds.rs calls it for a camera.
camera_bounds_bounds == from_dims(target_res.x, target_res.x)

\* The unwinding of a panic through get_global_bounds: Some(Todo).
Unwinds(found) == found # None /\ ~IsBounds(found[1])

\* get_global_bounds of ui/position.rs, over the cached Bounds `cache`.
RECURSIVE get_global_bounds_position(_, _)
get_global_bounds_position(current, cache) ==
    IF kind[current] = "camera" THEN Some(camera_bounds_position)
    ELSE IF kind[current] # "node" THEN None
    ELSE IF parent_of[current] # 0
    THEN LET up == get_global_bounds_position(parent_of[current], cache) IN
         IF Unwinds(up) THEN up
         ELSE Some(create_bounds(node_position[current],
                                 IF up = None THEN cache[current] ELSE up[1]))
    ELSE Some(cache[current])

\* get_global_bounds of ui/bounds.rs, over the cached Bounds `cache`.
RECURSIVE get_global_bounds_bounds(_, _)
get_global_bounds_bounds(current, cache) ==
    IF kind[current] = "camera" THEN Some(camera_bounds_bounds)
    ELSE IF kind[current] # "node" THEN None
    ELSE IF parent_of[current] # 0
    THEN LET up == get_global_bounds_bounds(parent_of[current], cache) IN
         Some(bounds_relative(IF up = None THEN cache[current] ELSE up[1],
                              local_bounds[current]))
    ELSE Some(local_bounds[current])

\* get_global_bounds of the walker the build runs.
get_global_bounds(current, cache) ==
    IF walker = "position"
    THEN get_global_bounds_position(current, cache)
    ELSE get_global_bounds_bounds(current, cache)

\* A Phase 2 that leaves the resolution of the collected entities for later.
update_loop_deferred(entities_to_update, cache) ==
    [bounds |-> cache, panicked |-> FALSE]

\* The loop of update_positions / update_bounds over entities_to_update in the
\* order the query gave them: the cached Bounds it leaves, and whether it panicked.
RECURSIVE update_loop(_, _)
update_loop(entities_to_update, cache) ==
    IF entities_to_update = <<>>
    THEN [bounds |-> cache, panicked |-> FALSE]
    ELSE LET entity == Head(entities_to_update)
             new_global_bounds == get_global_bounds(entity, cache)
         IN IF Unwinds(new_global_bounds)
            THEN [bounds |-> cache, panicked |-> TRUE]
            ELSE update_loop(Tail(entities_to_update),
                    IF new_global_bounds = None
                    THEN IF walker = "bounds"
                         THEN [cache EXCEPT ![entity] = local_bounds[entity]]
                         ELSE cache
                    ELSE IF new_global_bounds[1] # cache[entity]
                         THEN [cache EXCEPT ![entity] = new_global_bounds[1]]
                         ELSE cache)

\* The orders a query may give the entities of S in.
Orders(S) ==
    { order \in [1..Cardinality(S) -> S] :
        \A i, j \in 1..Cardinality(S) : order[i] = order[j] => i = j }

\* ------------------------------------------------------------------ layout actions

\* The positions the nodes of the tree are given.
TreePositions ==
    { Relative(1, 0, Px(2), Percent(1, 2), 0),
      Aligned(Percent(1, 1), Px(1), "Center", "Bottom"),
      Padded(1, 0, 0, 0) }

\* The local Bounds the nodes are given under the walker of ui/bounds.rs.
TreeLocalBounds == { AsciiBounds(1, 0, 2, 1, 0), AsciiBounds(0, 1, 1, 1, 1) }

\* The Bounds another system writes into a node's cache.
WrittenBounds == { AsciiBounds(1, 1, MaxExtent, 2, 2) }

\* The resolutions of the camera: one wider than high, one square.
Resolutions == { [x |-> MaxExtent + 1, y |-> 2], [x |-> MaxExtent, y |-> MaxExtent] }

\* The state after the tree is spawned: entity 1 is a camera, a layout node or an
\* entity that is neither; every other entity is a node below an earlier one.
\* A freshly added component reads as changed.
TreeSpawned ==
    /\ walker \in {"position", "bounds"}
    /\ kind \in [Entity -> {"camera", "node", "empty"}]
    /\ \A e \in Entity : e > 1 => kind[e] = "node"
    /\ parent_of \in [Entity -> 0..NumEntities]
    /\ parent_of[1] = 0
    /\ \A e \in Entity : e > 1 => parent_of[e] \in 1..(e - 1)
    /\ target_res = [x |-> MaxExtent + 1, y |-> 2]
    /\ node_position = [e \in Entity |-> Relative(1, 0, Px(2), Percent(1, 2), 0)]
    /\ local_bounds = [e \in Entity |-> AsciiBounds(1, 0, 2, 1, 0)]
    /\ global_bounds = [e \in Entity |-> bounds_default]
    /\ is_dirty = [e \in Entity |-> FALSE]
    /\ is_changed = [e \in Entity |-> kind[e] = "node"]
    /\ visibility_changed = [e \in Entity |-> FALSE]
    /\ node_changed = [e \in Entity |-> FALSE]
    /\ phase = "update"
    /\ panicked = FALSE
    /\ entities = {}
    /\ dirty = {}
    /\ events = 0
    /\ wrote = FALSE
    /\ quiet = FALSE
    /\ edited = TRUE
    /\ passes = 0
    /\ edits = 0
    /\ rendered = [pass |-> 0, hidden |-> {}, nodes |-> {}]

\* The tree is spawned with every node visible (VisibilityBundle::default).
LayoutInit ==
    /\ TreeSpawned
    /\ inherited_visibility = [e \in Entity |-> TRUE]

\* What every edit by a system of the Update stage has in common.
Edit ==
    /\ phase = "update"
    /\ ~panicked
    /\ edits < MaxEdits
    /\ edits' = edits + 1
    /\ edited' = TRUE
    /\ UNCHANGED <<tree_vars, is_dirty, phase, panicked, entities, dirty, events, wrote,
                   quiet, passes, rendered>>

\* A system assigns a node's AsciiPosition.
SetPosition ==
    /\ Edit
    /\ walker = "position"
    /\ \E e \in Nodes, p \in TreePositions :
        /\ node_position' = [node_position EXCEPT ![e] = p]
        /\ is_changed' = [is_changed EXCEPT ![e] = TRUE]
    /\ UNCHANGED <<target_res, local_bounds, global_bounds, visibility_changed,
                   node_changed, inherited_visibility>>

\* A system assigns a node's local AsciiBounds (the walker of ui/bounds.rs).
SetLocalBounds ==
    /\ Edit
    /\ walker = "bounds"
    /\ \E e \in Nodes, b \in TreeLocalBounds :
        /\ local_bounds' = [local_bounds EXCEPT ![e] = b]
        /\ is_changed' = [is_changed EXCEPT ![e] = TRUE]
    /\ UNCHANGED <<target_res, node_position, global_bounds, visibility_changed,
                   node_changed, inherited_visibility>>

\* The engine's visibility propagation writes a node's InheritedVisibility: the
\* walker reads that it changed.  The value is followed from the spawn on only
\* (see RenderInit).
ChangeVisibility ==
    /\ Edit
    /\ walker = "position"
    /\ \E e \in Nodes :
        visibility_changed' = [visibility_changed EXCEPT ![e] = TRUE]
    /\ UNCHANGED <<target_res, node_position, local_bounds, global_bounds, is_changed,
                   node_changed, inherited_visibility>>

\* Another system writes a node's cached Bounds; the node reports changed().
WriteBounds ==
    /\ Edit
    /\ walker = "position"
    /\ \E e \in Nodes, b \in WrittenBounds :
        /\ global_bounds' = [global_bounds EXCEPT ![e] = b]
        /\ node_changed' = [node_changed EXCEPT ![e] = TRUE]
    /\ UNCHANGED <<target_res, node_position, local_bounds, is_changed,
                   visibility_changed, inherited_visibility>>

\* The camera's target resolution changes.
SetTargetRes ==
    /\ Edit
    /\ kind[1] = "camera"
    /\ \E r \in Resolutions \ {target_res} : target_res' = r
    /\ UNCHANGED <<node_position, local_bounds, global_bounds, is_changed,
                   visibility_changed, node_changed, inherited_visibility>>

\* Phase 1 of ui/position.rs.
mark_positions_dirty ==
    /\ phase = "update"
    /\ ~panicked
    /\ passes < MaxPasses
    /\ walker = "position"
    /\ LET changed == {e \in Nodes : is_changed[e] \/ visibility_changed[e]}
           marked == changed \cup UNION {get_children(e) : e \in changed}
       IN /\ entities' = changed
          /\ dirty' = marked
          /\ events' = events_sent(marked)
          /\ is_dirty' = [e \in Entity |->
                            IF e \in Nodes /\ (e \in marked \/ node_changed[e])
                            THEN TRUE ELSE is_dirty[e]]
          /\ node_changed' = [e \in Entity |->
                            IF e \in Nodes /\ (e \in marked \/ node_changed[e])
                            THEN FALSE ELSE node_changed[e]]
    /\ is_changed' = [e \in Entity |-> FALSE]
    /\ visibility_changed' = [e \in Entity |-> FALSE]
    /\ quiet' = ~edited
    /\ phase' = "resolve"
    /\ UNCHANGED <<tree_vars, target_res, node_position, local_bounds, global_bounds,
                   panicked, wrote, edited, passes, edits, inherited_visibility,
                   rendered>>

\* Phase 1 of ui/bounds.rs.
mark_bounds_dirty ==
    /\ phase = "update"
    /\ ~panicked
    /\ passes < MaxPasses
    /\ walker = "bounds"
    /\ LET changed == {e \in Nodes : is_changed[e]}
           marked == changed \cup UNION {get_children(e) : e \in changed}
       IN /\ entities' = changed
          /\ dirty' = marked
          /\ is_dirty' = [e \in Entity |->
                            IF e \in Nodes /\ e \in marked THEN TRUE ELSE is_dirty[e]]
    /\ is_changed' = [e \in Entity |-> FALSE]
    /\ quiet' = ~edited
    /\ phase' = "resolve"
    /\ UNCHANGED <<tree_vars, target_res, node_position, local_bounds, global_bounds,
                   visibility_changed, node_changed, panicked, events, wrote, edited,
                   passes, edits, inherited_visibility, rendered>>

\* The collection of entities_to_update that leaves the dirty flags set.
collect_dirty_keeps_flags(flags) == flags

\* The dirty flags after entities_to_update is collected: each flag read is cleared.
collect_dirty(flags) == [e \in Entity |-> FALSE]

\* Phase 2: update_positions (ui/position.rs) or update_bounds (ui/bounds.rs).
\* The dirty flags are cleared while the entities are collected; the Bounds are
\* then resolved one entity after the other.
update_positions ==
    /\ phase = "resolve"
    /\ \E entities_to_update \in Orders({e \in Nodes : is_dirty[e]}) :
        LET done == update_loop(entities_to_update, global_bounds) IN
        /\ global_bounds' = done.bounds
        /\ panicked' = done.panicked
        /\ wrote' = (done.bounds # global_bounds)
    /\ is_dirty' = collect_dirty(is_dirty)
    /\ edited' = FALSE
    /\ passes' = passes + 1
    /\ phase' = "update"
    /\ UNCHANGED <<tree_vars, target_res, node_position, local_bounds, is_changed,
                   visibility_changed, node_changed, entities, dirty, events, quiet,
                   edits, inherited_visibility, rendered>>

LayoutNext ==
    \/ SetPosition /\ UNCHANGED <<surface_vars, resolve_vars, buffer_vars, builder_vars,
            button_vars>>
    \/ SetLocalBounds /\ UNCHANGED <<surface_vars, resolve_vars, buffer_vars, builder_vars,
            button_vars>>
    \/ ChangeVisibility /\ UNCHANGED <<surface_vars, resolve_vars, buffer_vars, builder_vars,
            button_vars>>
    \/ WriteBounds /\ UNCHANGED <<surface_vars, resolve_vars, buffer_vars, builder_vars,
            button_vars>>
    \/ SetTargetRes /\ UNCHANGED <<surface_vars, resolve_vars, buffer_vars, builder_vars,
            button_vars>>
    \/ mark_positions_dirty /\ UNCHANGED <<surface_vars, resolve_vars, buffer_vars, builder_vars,
            button_vars>>
    \/ mark_bounds_dirty /\ UNCHANGED <<surface_vars, resolve_vars, buffer_vars, builder_vars,
            button_vars>>
    \/ update_positions /\ UNCHANGED <<surface_vars, resolve_vars, buffer_vars, builder_vars,
            button_vars>>

\* The tree is spawned; no Surface and no single resolution is in play.
LayoutStart ==
    /\ LayoutInit
    /\ SurfaceIdle
    /\ ResolveIdle
    /\ BufferIdle
    /\ BuilderIdle
    /\ ButtonIdle

SpecLayout == LayoutStart /\ [][LayoutNext]_vars

\* ------------------------------------------------------------------ layout claims

\* A layout pass has just run over a tree no system touched since the pass before.
SecondPass == phase = "update" /\ passes >= 2 /\ quiet /\ ~panicked

\* C5: a layout pass over a tree that no system touched since the previous pass
\* writes no cached Bounds, marks no node dirty and sends no re-render event.
C5_Idempotence ==
    /\ SecondPass => ~wrote /\ dirty = {} /\ events = 0
    /\ (phase = "resolve" /\ quiet) => \A e \in Entity : ~is_dirty[e]

\* C5: a second pass ran over an untouched tree of a parent and a child holding
\* the Bounds the first pass resolved.
C5_Witness ==
    /\ SecondPass
    /\ \E e \in Nodes : parent_of[e] # 0 /\ global_bounds[e] # bounds_default

\* The ancestors of an entity, along the Parent links.
RECURSIVE Ancestors(_)
Ancestors(e) ==
    IF parent_of[e] = 0 THEN {} ELSE {parent_of[e]} \cup Ancestors(parent_of[e])

\* C8: at the end of phase 1 every node whose Position or visibility changed is
\* dirty, and so is every node that has such a node among its ancestors.
C8_DirtyPropagation ==
    phase = "resolve" =>
        \A e \in entities :
            /\ is_dirty[e]
            /\ \A d \in Entity : e \in Ancestors(d) => is_dirty[d]

\* C8: phase 1 ran after a change to a node with a grandchild, and only to it.
C8_Witness ==
    /\ phase = "resolve"
    /\ \E e \in entities, d \in Entity :
        /\ entities = {e}
        /\ parent_of[d] # e
        /\ e \in Ancestors(d)
        /\ is_dirty[d]

\* C9: phase 1 of ui/position.rs sends one AsciiMarkDirtyEvent when the changes
\* made some node dirty, however many, and none when they made no node dirty.
C9_OneEventPerTick ==
    (phase = "resolve" /\ walker = "position") =>
        events = (IF entities # {} THEN 1 ELSE 0)

\* C9: phase 1 made more than one node dirty and sent its one event.
C9_Witness ==
    /\ phase = "resolve"
    /\ walker = "position"
    /\ Cardinality(dirty) >= 2
    /\ events = 1

\* C9: phase 1 ran over a tree without changes and sent nothing.
C9_WitnessNone ==
    /\ phase = "resolve"
    /\ walker = "position"
    /\ entities = {}
    /\ events = 0

\* C10: once a pass has run, the Bounds resolution gives a camera are
\* from_dims(target_res.x, target_res.y): the resolution's width and height.
C10_CameraBounds ==
    (phase = "update" /\ passes >= 1) =>
        \A c \in Entity :
            kind[c] = "camera" =>
                get_global_bounds(c, global_bounds)
                    = Some(AsciiBounds(0, 0, target_res.x, target_res.y, 0))

\* The node's Parent link names an entity that is neither a camera nor a node.
MissingParent(e) ==
    /\ kind[e] = "node"
    /\ parent_of[e] # 0
    /\ kind[parent_of[e]] = "empty"

\* C11: a node whose parent cannot be looked up resolves as a root does, to its
\* own cached Bounds as they are, so a pass over such nodes writes no Bounds.
C11_MissingParentIsRoot ==
    (phase = "update" /\ passes >= 1 /\ ~panicked) =>
        /\ \A e \in Entity :
            MissingParent(e) =>
                get_global_bounds(e, global_bounds) = Some(global_bounds[e])
        /\ (\A e \in Nodes : MissingParent(e)) => ~wrote

\* The Bounds get_global_bounds resolves the node's Position against: its
\* parent's, or its own cached Bounds when the parent cannot be looked up.
ParentBoundsOf(e) ==
    LET up == get_global_bounds(parent_of[e], global_bounds)
    IN IF up = None THEN global_bounds[e] ELSE up[1]

\* The padding leaves no positive width or no positive height of the parent.
Inverts(padding, parent) ==
    \/ U32Le(parent.width, padding.left + padding.right)
    \/ U32Le(parent.height, padding.top + padding.bottom)

\* The node is Padded below a parent whose Bounds its padding inverts.
InvertedPadding(e) ==
    /\ kind[e] = "node"
    /\ parent_of[e] # 0
    /\ node_position[e].tag = "Padded"
    /\ IsBounds(ParentBoundsOf(e))
    /\ Inverts(node_position[e], ParentBoundsOf(e))

\* C12: the walker resolves a Padded node whose padding inverts its parent's
\* rectangle to the node's cached Bounds as they were, without an error.
C12_InvertedPaddingKeepsBounds ==
    \A e \in Entity :
        InvertedPadding(e) =>
            get_global_bounds(e, global_bounds) = Some(global_bounds[e])

\* C13: over nodes with Relative, Aligned and Padded positions phase 2 ends with
\* every dirty node resolved; it never aborts.
C13_ResolutionNeverFails ==
    (\A e \in Nodes : node_position[e].tag \in {"Relative", "Aligned", "Padded"})
        => ~panicked

\* C14: a width or height given as Px(v) resolves to max(v, 0) cells, whatever
\* the parent's extent: every negative v resolves to 0.
C14_PxIsClampedAtZero ==
    (Resolved /\ position.tag = "Relative" /\ resolve_op # "relative") =>
        /\ position.width.tag = "Px" => resolve_out.width = Max(position.width.v, 0)
        /\ position.height.tag = "Px" => resolve_out.height = Max(position.height.v, 0)

\* `out` is what the Value comes to against the extent: the pixel count as it is,
\* or the largest whole number of cells not above the fraction of the extent.
ResolvesTo(value, extent, out) ==
    IF value.tag = "Px"
    THEN out = value.v
    ELSE /\ out >= 0
         /\ out * value.den <= extent * value.num
         /\ extent * value.num < (out + 1) * value.den

\* C15: a Relative position resolves to the parent's x and y plus its own, to
\* its Values resolved against the parent's width and height (a Percent of 1.0
\* to exactly the parent's), and to the parent's layer plus its own plus one.
C15_RelativeResolution ==
    (Resolved /\ position.tag = "Relative") =>
        /\ resolve_out.x = parent_bounds.x + position.x
        /\ resolve_out.y = parent_bounds.y + position.y
        /\ ResolvesTo(position.width, parent_bounds.width, resolve_out.width)
        /\ ResolvesTo(position.height, parent_bounds.height, resolve_out.height)
        /\ position.width = Percent(1, 1) => resolve_out.width = parent_bounds.width
        /\ position.height = Percent(1, 1) => resolve_out.height = parent_bounds.height
        /\ resolve_out.layer = parent_bounds.layer + position.layer + 1

\* C15: a Relative position that fills its parent was resolved by create_bounds
\* against a parent away from the origin and above layer 0.
C15_Witness ==
    /\ resolve_op = "create_bounds"
    /\ position = Relative(2, 0, Percent(1, 1), Percent(1, 1), 1)
    /\ parent_bounds = AsciiBounds(3, 1, MaxExtent, 2, 1)
    /\ resolve_out = AsciiBounds(5, 1, MaxExtent, 2, 3)

\* `out` is the offset of `size` cells in `extent` cells under the alignment:
\* none at the near edge, the rest at the far edge, half of the rest rounded
\* down in the centre; none of it when the size is larger than the extent.
AlignsTo(alignment, extent, size, out) ==
    IF alignment \in {"Left", "Top"} \/ U32Lt(extent, size)
    THEN out = 0
    ELSE IF alignment = "Center"
    THEN 2 * out <= extent - size /\ extent - size < 2 * out + 2
    ELSE out = extent - size

\* The resolved rectangle lies inside the parent's rectangle.
Inside ==
    /\ parent_bounds.x <= resolve_out.x
    /\ parent_bounds.y <= resolve_out.y
    /\ resolve_out.x + resolve_out.width <= parent_bounds.x + parent_bounds.width
    /\ resolve_out.y + resolve_out.height <= parent_bounds.y + parent_bounds.height

\* C16: an Aligned position resolves to the parent's x and y plus the offset of
\* its alignment, to its width and height clamped to the parent's, and to the
\* parent's layer plus one; the rectangle lies inside the parent's; 10 by 4
\* centred in 40 by 20 at the origin on layer 0 is (15, 8, 10, 4, layer 1).
C16_AlignedResolution ==
    (Resolved /\ position.tag = "Aligned") =>
        LET w == pixel_u32(position.width, parent_bounds.width)
            h == pixel_u32(position.height, parent_bounds.height)
        IN /\ AlignsTo(position.horizontal, parent_bounds.width, w,
                       resolve_out.x - parent_bounds.x)
           /\ AlignsTo(position.vertical, parent_bounds.height, h,
                       resolve_out.y - parent_bounds.y)
           /\ resolve_out.width = U32Min(w, parent_bounds.width)
           /\ resolve_out.height = U32Min(h, parent_bounds.height)
           /\ resolve_out.layer = parent_bounds.layer + 1
           /\ Inside
           /\ (position = Aligned(Px(10), Px(4), "Center", "Center")
                    /\ parent_bounds = ExampleParent)
                => resolve_out = AsciiBounds(15, 8, 10, 4, 1)

\* C16: the worked example was resolved by create_bounds.
C16_Witness ==
    /\ resolve_op = "create_bounds"
    /\ position = Aligned(Px(10), Px(4), "Center", "Center")
    /\ parent_bounds = ExampleParent
    /\ resolve_out = AsciiBounds(15, 8, 10, 4, 1)

\* lo <= v <= lo + count for a u32 count.  A count of 2^31 or more, held as a
\* negative integer, puts lo + count above every i32 of the model.
InclusiveRange(lo, count, v) ==
    IF count < 0 THEN lo <= v ELSE lo <= v /\ v <= lo + count

with_layer(character, layer) ==
    IF IsSet(character) THEN [character EXCEPT !.layer = layer] ELSE character

\* The Surface coordinate of a local one, without the translation by the Bounds.
buffer_absolute_untranslated(bounds, lx, ly) == [x |-> lx, y |-> ly]

\* AsciiBuffer::set_character: the Surface coordinate of a local one.
buffer_absolute(bounds, lx, ly) == [x |-> bounds.x + lx, y |-> bounds.y + ly]

\* AsciiBuffer::set_character: does the clip let the Surface coordinate through?
clip_admits(clip_bounds, x, y) ==
    clip_bounds = None \/ is_within(clip_bounds[1], x, y)

\* AsciiBuffer::set_character: the Surface writes it makes, in order.
buffer_set_character(buf, lx, ly, character) ==
    LET at == buffer_absolute(buf.bounds, lx, ly) IN
    IF ~clip_admits(buf.clip_bounds, at.x, at.y)
    THEN <<>>
    ELSE << [x |-> at.x, y |-> at.y,
             character |-> with_layer(character, buf.bounds.layer)] >>

\* A clone of the Surface that copies the cells into an allocation of its own.
surface_clone_deep(surface) == surface + 1

\* AsciiSurface::clone (derived): the Arc of the cells is cloned, so the clone
\* refers to the allocation its source refers to.
surface_clone(surface) == surface

\* AsciiBuffer::clip
buffer_clip(buf) ==
    [surface |-> surface_clone(buf.surface), bounds |-> buf.bounds,
     clip_bounds |-> Some(buf.bounds)]

\* sub_buffer that leaves the derived Buffer on the layer of its source.
sub_buffer_same_layer(buf, x, y, w, h) ==
    IF is_within(buf.bounds, x, y)
    THEN Some([surface |-> surface_clone(buf.surface),
               bounds |-> AsciiBounds(x, y, w, h, buf.bounds.layer),
               clip_bounds |-> buf.clip_bounds])
    ELSE None

\* AsciiBuffer::sub_buffer
sub_buffer(buf, x, y, w, h) ==
    IF is_within(buf.bounds, x, y)
    THEN Some([surface |-> surface_clone(buf.surface),
               bounds |-> AsciiBounds(x, y, w, h, buf.bounds.layer + 1),
               clip_bounds |-> buf.clip_bounds])
    ELSE None

\* The AsciiBuffer literal of relative, top, bottom, left, right and center.
buffer_with_bounds(buf, resolved) ==
    [surface |-> surface_clone(buf.surface), bounds |-> resolved,
     clip_bounds |-> buf.clip_bounds]

\* AsciiPosition::top, bottom, left, right: 1.0 is Percent(1.0).
position_top(size) == Aligned(Percent(1, 1), size, "Center", "Top")

position_bottom(size) == Aligned(Percent(1, 1), size, "Center", "Bottom")

position_left(size) == Aligned(size, Percent(1, 1), "Left", "Center")

position_right(size) == Aligned(size, Percent(1, 1), "Right", "Center")

\* AsciiBuffer::relative
buffer_relative(buf, x, y, w, h) ==
    buffer_with_bounds(buf,
        format_bounds(Relative(x, y, w, h, buf.bounds.layer), buf.bounds, bounds_default))

\* AsciiBuffer::top, bottom, left, right; `size as i32` keeps the bits.
buffer_top(buf, size) ==
    buffer_with_bounds(buf,
        format_bounds(position_top(Px(U32AsI32(size))), buf.bounds, bounds_default))

buffer_bottom(buf, size) ==
    buffer_with_bounds(buf,
        format_bounds(position_bottom(Px(U32AsI32(size))), buf.bounds, bounds_default))

buffer_left(buf, size) ==
    buffer_with_bounds(buf,
        format_bounds(position_left(Px(U32AsI32(size))), buf.bounds, bounds_default))

buffer_right(buf, size) ==
    buffer_with_bounds(buf,
        format_bounds(position_right(Px(U32AsI32(size))), buf.bounds, bounds_default))

\* AsciiBuffer::center
buffer_center(buf, w, h) ==
    buffer_with_bounds(buf,
        format_bounds_aligned(w, h, "Center", "Center", buf.bounds, bounds_default))

\* AsciiBuffer::padding
buffer_padding(buf, padding) ==
    LET horizontal_difference ==
            U32AsI32(buf.bounds.width) - U32AsI32(padding.left) - U32AsI32(padding.right)
        vertical_difference ==
            U32AsI32(buf.bounds.height) - U32AsI32(padding.top) - U32AsI32(padding.bottom)
    IN IF horizontal_difference <= 0 \/ vertical_difference <= 0
       THEN [buf EXCEPT !.surface = surface_clone(buf.surface)]
       ELSE [surface |-> surface_clone(buf.surface),
             bounds |-> [buf.bounds EXCEPT
                            !.x = @ + U32AsI32(padding.left),
                            !.y = @ + U32AsI32(padding.top),
                            !.width = @ - (padding.left + padding.right),
                            !.height = @ - (padding.top + padding.bottom)],
             clip_bounds |-> buf.clip_bounds]

\* ------------------------------------------------------------------ buffer actions

\* The Bounds of the Buffers a component is handed: at the Surface's origin or
\* one cell inside it, one cell or MaxDim cells wide and high, on layer MaxLayer.
BufferBounds ==
    { AsciiBounds(at, at, size, size, MaxLayer) : at \in 0..1, size \in {1, MaxDim} }

\* The characters drawn through a Buffer; the layers they carry are replaced.
BufferCharacters == {Unset, SetCharacter(3, 5, 2, 0)}

\* The local coordinates drawn at: the first and last of the Buffer's range
\* and the ones next to them outside it.
LocalOffsets(extent) == {-1, 0, extent - 1, extent}

\* AsciiBuffer::new over a Surface one cell larger than the largest Buffer, so
\* that cells lie outside a Buffer on every side it does not touch.  The cells
\* AsciiSurface::new allocates are allocation 1; `data` holds them.
BufferInit ==
    /\ width = MaxDim + 1
    /\ height = MaxDim + 1
    /\ data = surface_new(width, height)
    /\ call = [op |-> "new"]
    /\ result = <<>>
    /\ grid = [p \in Coordinates |-> Unset]
    /\ writes = 0
    /\ poisoned = FALSE
    /\ written = <<>>
    /\ buffer \in [surface : {1}, bounds : BufferBounds, clip_bounds : {None}]

\* A component draws one character through the Buffer, at a local coordinate
\* of the Buffer or one cell outside it.
BufferSetCharacterCall ==
    /\ writes < MaxWrites
    /\ \E lx \in LocalOffsets(buffer.bounds.width),
          ly \in LocalOffsets(buffer.bounds.height), c \in BufferCharacters :
        LET surface_writes == buffer_set_character(buffer, lx, ly, c)
            after == IF surface_writes = <<>> \/ buffer.surface # 1 THEN data
                     ELSE set_character(surface_writes[1].x, surface_writes[1].y,
                                        surface_writes[1].character)
        IN /\ data' = after
           /\ call' = [op |-> "buffer_set_character", lx |-> lx, ly |-> ly,
                       character |-> c, surface_writes |-> surface_writes,
                       changed |-> after # data]
    /\ result' = <<>>
    /\ writes' = writes + 1
    /\ UNCHANGED <<width, height, poisoned, written, grid, buffer>>

\* The Buffer is the one the component was handed and nothing is drawn yet:
\* a component derives its Buffers first and then draws through them.
Underived == buffer.bounds.layer = MaxLayer /\ writes = 0

\* The component clips the Buffer to its Bounds.
BufferClipCall ==
    /\ buffer.clip_bounds = None
    /\ writes = 0
    /\ buffer' = buffer_clip(buffer)
    /\ call' = [op |-> "clip", source |-> buffer]
    /\ UNCHANGED <<width, height, poisoned, written, data, result, grid, writes>>

\* The component goes on with a sub-buffer, when sub_buffer gives one.
SubBufferCall ==
    /\ Underived
    /\ \E x \in 0..1, w \in {1, MaxDim} :
        /\ sub_buffer(buffer, x, x, w, 1) # None
        /\ buffer' = sub_buffer(buffer, x, x, w, 1)[1]
    /\ call' = [op |-> "sub_buffer", source |-> buffer]
    /\ UNCHANGED <<width, height, poisoned, written, data, result, grid, writes>>

\* The component goes on with the Buffer one of the positional derivations
\* gives: for relative, one column as high as the parent, one cell off its corner.
BufferRelativeCall ==
    /\ Underived
    /\ buffer' = buffer_relative(buffer, 1, 1, Px(1), Percent(1, 1))
    /\ call' = [op |-> "relative", source |-> buffer]
    /\ UNCHANGED <<width, height, poisoned, written, data, result, grid, writes>>

BufferTopCall ==
    /\ Underived
    /\ buffer' = buffer_top(buffer, 1)
    /\ call' = [op |-> "top", source |-> buffer]
    /\ UNCHANGED <<width, height, poisoned, written, data, result, grid, writes>>

BufferBottomCall ==
    /\ Underived
    /\ buffer' = buffer_bottom(buffer, 1)
    /\ call' = [op |-> "bottom", source |-> buffer]
    /\ UNCHANGED <<width, height, poisoned, written, data, result, grid, writes>>

BufferLeftCall ==
    /\ Underived
    /\ buffer' = buffer_left(buffer, 1)
    /\ call' = [op |-> "left", source |-> buffer]
    /\ UNCHANGED <<width, height, poisoned, written, data, result, grid, writes>>

BufferRightCall ==
    /\ Underived
    /\ buffer' = buffer_right(buffer, 1)
    /\ call' = [op |-> "right", source |-> buffer]
    /\ UNCHANGED <<width, height, poisoned, written, data, result, grid, writes>>

BufferCenterCall ==
    /\ Underived
    /\ buffer' = buffer_center(buffer, Px(1), Px(1))
    /\ call' = [op |-> "center", source |-> buffer]
    /\ UNCHANGED <<width, height, poisoned, written, data, result, grid, writes>>

\* The component goes on with the Buffer inset by one cell at the left and top.
BufferPaddingCall ==
    /\ Underived
    /\ buffer' = buffer_padding(buffer, Padded(1, 0, 1, 0))
    /\ call' = [op |-> "padding", source |-> buffer]
    /\ UNCHANGED <<width, height, poisoned, written, data, result, grid, writes>>

BufferNext ==
    \/ BufferSetCharacterCall /\ UNCHANGED <<resolve_vars, layout_vars, builder_vars,
            button_vars>>
    \/ BufferClipCall /\ UNCHANGED <<resolve_vars, layout_vars, builder_vars,
            button_vars>>
    \/ SubBufferCall /\ UNCHANGED <<resolve_vars, layout_vars, builder_vars,
            button_vars>>
    \/ BufferRelativeCall /\ UNCHANGED <<resolve_vars, layout_vars, builder_vars,
            button_vars>>
    \/ BufferTopCall /\ UNCHANGED <<resolve_vars, layout_vars, builder_vars,
            button_vars>>
    \/ BufferBottomCall /\ UNCHANGED <<resolve_vars, layout_vars, builder_vars,
            button_vars>>
    \/ BufferLeftCall /\ UNCHANGED <<resolve_vars, layout_vars, builder_vars,
            button_vars>>
    \/ BufferRightCall /\ UNCHANGED <<resolve_vars, layout_vars, builder_vars,
            button_vars>>
    \/ BufferCenterCall /\ UNCHANGED <<resolve_vars, layout_vars, builder_vars,
            button_vars>>
    \/ BufferPaddingCall /\ UNCHANGED <<resolve_vars, layout_vars, builder_vars,
            button_vars>>

\* A Buffer is made over a fresh Surface; no resolution and no tree is in play.
BufferStart ==
    /\ BufferInit
    /\ ResolveIdle
    /\ LayoutIdle
    /\ BuilderIdle
    /\ ButtonIdle

SpecBuffer == BufferStart /\ [][BufferNext]_vars

\* ------------------------------------------------------------------ claims on the Buffer

\* The last call drew a character through the Buffer.
Drew == call.op = "buffer_set_character"

\* C18: drawing through a Buffer without a clip makes exactly one Surface write,
\* at the Bounds' x and y plus the local coordinate, of the character given
\* with its layer replaced by the Bounds' layer.
C18_BufferWriteTranslated ==
    (Drew /\ buffer.clip_bounds = None) =>
        /\ Len(call.surface_writes) = 1
        /\ call.surface_writes[1].x = buffer.bounds.x + call.lx
        /\ call.surface_writes[1].y = buffer.bounds.y + call.ly
        /\ IF IsSet(call.character)
           THEN call.surface_writes[1].character =
                    SetCharacter(call.character.index, call.character.text_color,
                                 call.character.background_color, buffer.bounds.layer)
           ELSE call.surface_writes[1].character = Unset

\* C18: a character carrying layer 0 was drawn through an unclipped Buffer that
\* lies off the Surface's origin on another layer, and the Surface took it.
C18_Witness ==
    /\ Drew
    /\ buffer.clip_bounds = None
    /\ buffer.bounds.x = 1
    /\ buffer.bounds.y = 1
    /\ buffer.bounds.layer > 0
    /\ call.lx = 0
    /\ call.ly = 0
    /\ call.character = SetCharacter(3, 5, 2, 0)
    /\ call.changed
    /\ data[calc_index(1, 1)[1] + 1] = SetCharacter(3, 5, 2, buffer.bounds.layer)

\* C19: a draw through a Buffer whose clip is the rectangle C changes no cell
\* outside the C.width by C.height cells that start at (C.x, C.y).
C19_ClipContainsWrites ==
    (Drew /\ buffer.clip_bounds # None /\ call.changed) =>
        LET C == buffer.clip_bounds[1]
            at == call.surface_writes[1]
        IN /\ C.x <= at.x /\ at.x < C.x + C.width
           /\ C.y <= at.y /\ at.y < C.y + C.height

\* C20: a draw at a local coordinate outside the Buffer's own range (below 0,
\* or at or beyond its width or height) changes no Surface cell, with or
\* without a clip.
C20_OutOfRangeDrawDropped ==
    (Drew /\ (\/ call.lx < 0
              \/ call.ly < 0
              \/ call.lx >= buffer.bounds.width
              \/ call.ly >= buffer.bounds.height))
        => ~call.changed

\* The names of the calls that derive a Buffer.
Derivations ==
    {"clip", "sub_buffer", "relative", "top", "bottom", "left", "right", "center",
     "padding"}

\* C21: a derived Buffer refers to the Surface of its source: a derivation
\* leaves every cell as AsciiSurface::new made it, and a character the derived
\* Buffer hands to a cell of the Surface is what the source's Surface holds
\* there and what as_byte_vec gives for the cell, unless the cell holds a
\* character of a higher layer.
C21_DerivedBufferSharesSurface ==
    /\ call.op \in Derivations => data = surface_new(width, height)
    /\ (Drew /\ call.surface_writes # <<>>) =>
        LET at == call.surface_writes[1]
            index == calc_index(at.x, at.y)
        IN index # None =>
            LET cell == data[index[1] + 1] IN
            \/ /\ cell = at.character
               /\ SubSeq(as_byte_vec, 4 * index[1] + 1, 4 * index[1] + 4)
                    = into_u8(at.character)
            \/ /\ IsSet(cell)
               /\ IsSet(at.character)
               /\ cell.layer > at.character.layer

\* C21: a character drawn through a Buffer derived by relative is in the
\* source's Surface, one cell off the source's corner.
C21_Witness ==
    /\ Drew
    /\ buffer.bounds.layer = 2 * MaxLayer + 1
    /\ buffer.bounds.x = 1
    /\ call.lx = 0
    /\ call.ly = 0
    /\ call.character = SetCharacter(3, 5, 2, 0)
    /\ data[calc_index(1, 1)[1] + 1] = SetCharacter(3, 5, 2, buffer.bounds.layer)

\* ------------------------------------------------------------------ strings

\* A String is the sequence of its chars, a char its code point.  The chars of
\* the model: 'a'..'z' (97..122), ' ' (32), '\n' (10) and 'é' (233), which
\* UTF-8 encodes in two bytes.

\* char::len_utf8, for code points below 2048.
len_utf8(c) == IF c < 128 THEN 1 ELSE 2

RECURSIVE str_len(_)
\* str::len: the length in bytes.
str_len(string) ==
    IF string = <<>> THEN 0 ELSE len_utf8(Head(string)) + str_len(Tail(string))

\* str::chars().nth(n)
chars_nth(string, n) == IF n < Len(string) THEN Some(string[n + 1]) ELSE None

\* Character::from(char) on the chars of the model: a letter is its glyph
\* (A is 1), ' ' is Space (32), a char without a glyph is Nil (96).
character_from(c) ==
    CASE c \in 97..122 -> c - 96
      [] c \in 65..90 -> c - 64
      [] c = 32 -> 32
      [] OTHER -> 96

RECURSIVE split(_, _)
\* str::split on one char.
split(string, separator) ==
    IF \A i \in 1..Len(string) : string[i] # separator
    THEN <<string>>
    ELSE LET i == CHOOSE i \in 1..Len(string) :
                    /\ string[i] = separator
                    /\ \A j \in 1..(i - 1) : string[j] # separator
         IN <<SubSeq(string, 1, i - 1)>>
                \o split(SubSeq(string, i + 1, Len(string)), separator)

\* str::lines: the pieces between the '\n's, without a last empty one.
lines_of(string) ==
    LET pieces == split(string, 10) IN
    IF pieces[Len(pieces)] = <<>> THEN SubSeq(pieces, 1, Len(pieces) - 1) ELSE pieces

RECURSIVE chunks(_, _)
\* A word longer than the line, broken into pieces of the line's width.
chunks(word, w) ==
    IF Len(word) <= w THEN <<word>>
    ELSE <<SubSeq(word, 1, w)>> \o chunks(SubSeq(word, w + 1, Len(word)), w)

RECURSIVE fill(_, _, _)
\* The lines that hold `current` and then the words of `rest`, each line
\* taking the words that fit in w columns with one space between them.
fill(current, rest, w) ==
    IF rest = <<>> THEN <<current>>
    ELSE IF Len(current) + 1 + Len(Head(rest)) <= w
         THEN fill(current \o <<32>> \o Head(rest), Tail(rest), w)
         ELSE <<current>> \o fill(Head(rest), Tail(rest), w)

\* textwrap::wrap of one line of text for a width of at least 1.
wrap_line(line, w) ==
    LET words == SelectSeq(split(line, 32), LAMBDA word : word # <<>>)
        pieces == flatten([i \in 1..Len(words) |-> chunks(words[i], w)])
    IN IF pieces = <<>> THEN << <<>> >> ELSE fill(Head(pieces), Tail(pieces), w)

\* textwrap::wrap as AsciiTextDrawer::draw calls it, for a width of at least 1
\* and the texts of the model (short words of ASCII letters).
wrap(text, w) ==
    LET pieces == split(text, 10) IN
    flatten([i \in 1..Len(pieces) |-> wrap_line(pieces[i], w)])

\* ------------------------------------------------------------------ drawers

\* One call of AsciiBuffer::set_character a drawer makes: the local coordinate
\* and the character, whether the character is one of the title, and for a
\* text the line and column it is the character of (-1 otherwise).
Draw(lx, ly, character, title, line, column) ==
    [lx |-> lx, ly |-> ly, character |-> character, title |-> title,
     line |-> line, column |-> column]

RECURSIVE draw_all(_, _, _)
\* The cells after the draws are made through the Buffer, in order.
draw_all(cells, buf, draws) ==
    IF draws = <<>> THEN cells
    ELSE LET d == Head(draws)
             surface_writes == buffer_set_character(buf, d.lx, d.ly, d.character)
             after == IF surface_writes = <<>> \/ buf.surface # 1 THEN cells
                      ELSE set_character_on(cells, surface_writes[1].x,
                                            surface_writes[1].y,
                                            surface_writes[1].character)
         IN draw_all(after, buf, Tail(draws))

\* BorderType::get_character: the glyph, or todo!() for Half and Dashed.
\* The glyphs: LBorderNW 79, LBorderNE 80, LBorderSW 76, LBorderSE 122,
\* BorderW 101, BorderE 103, BorderN 119, BorderS 111, Nil 96.
get_character(border, x, y, w, h) ==
    CASE border = "Full" ->
            [tag |-> "Character",
             index |-> CASE x = 0 /\ y = 0 -> 79
                         [] x = w - 1 /\ y = 0 -> 80
                         [] x = 0 /\ y = h - 1 -> 76
                         [] x = w - 1 /\ y = h - 1 -> 122
                         [] x = 0 -> 101
                         [] x = w - 1 -> 103
                         [] y = 0 -> 119
                         [] y = h - 1 -> 111
                         [] OTHER -> 96]
      [] border = "None" -> [tag |-> "Character", index |-> 96]
      [] OTHER -> Todo

\* The title's first column in AsciiBoxDrawer::calc_character.
x_start(title_alignment, w, title_len) ==
    CASE title_alignment = "Left" -> 2
      [] title_alignment = "Center" -> Max((w \div 2) - (title_len \div 2), 2)
      [] title_alignment = "Right" -> Max(w - title_len - 2, 2)

\* AsciiBoxDrawer::calc_character with the colours AsciiBuffer::square sets
\* (Black is 0, White is 1): the character of the cell (x, y), or a panic.
calc_character(buf, border, title, title_alignment, x, y) ==
    LET w == buf.bounds.width
        max_title_width == U32AsI32(w) - 4
        character == get_character(border, x, y, w, buf.bounds.height)
        panic == [panics |-> TRUE, title |-> FALSE, character |-> Unset]
        plain == [panics |-> FALSE, title |-> FALSE,
                  character |-> SetCharacter(character.index, 1, 0, 0)]
    IN IF character = Todo THEN panic
       ELSE IF max_title_width < 2 THEN plain
       ELSE IF title # None /\ y = 0 /\ x >= 2 /\ x <= w - 2
       THEN LET title_len == Min(str_len(title[1]), max_title_width)
                index == x - x_start(title_alignment, w, title_len)
            IN IF index >= 0 /\ index < title_len
               THEN IF chars_nth(title[1], index) = None
                    THEN panic
                    ELSE [panics |-> FALSE, title |-> TRUE,
                          character |->
                            SetCharacter(character_from(chars_nth(title[1], index)[1]),
                                         0, 1, 0)]
               ELSE plain
       ELSE plain

\* AsciiBoxDrawer::draw: the draws it makes, row by row up to the first cell
\* whose character panics, and the Buffer of the inside it returns.
box_draw(buf, border, title, title_alignment) ==
    LET w == buf.bounds.width
        h == buf.bounds.height
        cells == [i \in 1..(w * h) |->
                    calc_character(buf, border, title, title_alignment,
                                   (i - 1) % w, (i - 1) \div w)]
        panics == {i \in 1..(w * h) : cells[i].panics}
        drawn == IF panics = {} THEN w * h
                 ELSE (CHOOSE i \in panics : \A j \in panics : i <= j) - 1
    IN [outcome |-> IF panics = {} THEN "returned" ELSE "panicked",
        underflow |-> FALSE,
        draws |-> [i \in 1..drawn |->
                     Draw((i - 1) % w, (i - 1) \div w, cells[i].character,
                          cells[i].title, -1, -1)],
        returned |-> IF panics = {}
                     THEN sub_buffer(buf, buf.bounds.x + 1, buf.bounds.y + 1,
                                     saturating_sub(w, 2), saturating_sub(h, 2))
                     ELSE None]

\* The lines the loop of AsciiTextDrawer::draw goes through.
rows_unbounded(h, lines) == Len(lines)

\* AsciiTextDrawer::draw: `for line in 0..height`, left when `lines` has no
\* such line.
rows(h, lines) == Min(h, Len(lines))

\* AsciiTextDrawer::draw with the colours AsciiBuffer::text sets.  The bound
\* of the column loop is width - 1 in u32: on a Buffer of width 0 it panics
\* where the build checks overflow and is u32::MAX where it does not.
text_draw(buf, lines, horizontal_alignment, vertical_alignment, overflow_checks) ==
    LET w == buf.bounds.width
        h == buf.bounds.height
        n == rows(h, lines)
        underflow == n > 0 /\ w = 0
        start_y == CASE vertical_alignment = "Top" -> 0
                     [] vertical_alignment = "Center" -> (h - Len(lines)) \div 2
                     [] vertical_alignment = "Bottom" -> h - Len(lines) - 1
        start_x(text) ==
            CASE horizontal_alignment = "Left" -> 0
              [] horizontal_alignment = "Center" -> (w - str_len(text)) \div 2
              [] horizontal_alignment = "Right" -> w - str_len(text) - 1
        columns(text) == U32Min(Len(text), w - 1)
        line_draws(line) ==
            [column \in 1..columns(lines[line]) |->
                Draw(start_x(lines[line]) + column - 1, start_y + line - 1,
                     SetCharacter(character_from(lines[line][column]), 1, 0, 0),
                     FALSE, line - 1, column - 1)]
    IN IF underflow /\ overflow_checks
       THEN [outcome |-> "panicked", underflow |-> TRUE, draws |-> <<>>]
       ELSE [outcome |-> "returned", underflow |-> underflow,
             draws |-> flatten([line \in 1..n |-> line_draws(line)])]

\* BorderType::top, bottom, left and right: the glyph of a side.
border_side(border_type, side) ==
    IF border_type = "Full"
    THEN CASE side = "top" -> 119
           [] side = "bottom" -> 111
           [] side = "left" -> 101
           [] side = "right" -> 103
    ELSE 96

\* AsciiBorderDrawer::draw on the sides chosen.  The Bounds of the inside are
\* width and height less the sides, in u32: a subtraction below 0 panics
\* where the build checks overflow and wraps where it does not.
border_draw(buf, border_type, sides, overflow_checks) ==
    LET w == buf.bounds.width
        h == buf.bounds.height
        side(name, count, lx(_), ly(_)) ==
            IF name \in sides
            THEN [i \in 1..count |->
                    Draw(lx(i - 1), ly(i - 1),
                         SetCharacter(border_side(border_type, name), 1, 0, 0),
                         FALSE, -1, -1)]
            ELSE <<>>
        draws == side("top", w, LAMBDA i : i, LAMBDA i : 0)
                 \o side("bottom", w, LAMBDA i : i, LAMBDA i : U32AsI32(h))
                 \o side("left", h, LAMBDA i : 0, LAMBDA i : i)
                 \o side("right", h, LAMBDA i : U32AsI32(w) - 1, LAMBDA i : i)
        across == Cardinality(sides \cap {"left", "right"})
        along == Cardinality(sides \cap {"top", "bottom"})
        underflow == U32Lt(w, across) \/ U32Lt(h, along)
    IN IF underflow /\ overflow_checks
       THEN [outcome |-> "panicked", underflow |-> TRUE, draws |-> draws,
             returned |-> None]
       ELSE [outcome |-> "returned", underflow |-> underflow, draws |-> draws,
             returned |-> sub_buffer(buf,
                                     IF "left" \in sides THEN 1 ELSE 0,
                                     IF "top" \in sides THEN 1 ELSE 0,
                                     w - across, h - along)]

\* ------------------------------------------------------------------ drawer actions

\* The widest Buffer drawn into: a title has room from width 6 on.
MaxBoxWidth == 7

\* The highest Buffer drawn into.
MaxBoxHeight == 2

\* The longest title.
MaxTitle == 4

\* The Bounds of the Buffers drawn into, zero-size ones among them.
DrawBounds ==
    { AsciiBounds(at, at, w, h, MaxLayer) :
        at \in 0..1, w \in 0..MaxBoxWidth, h \in 0..MaxBoxHeight }

\* The titles: none, "", "a", "ab", ... up to MaxTitle letters, and "é".
Titles ==
    {None, Some(<<233>>)} \cup { Some([i \in 1..n |-> 96 + i]) : n \in 0..MaxTitle }

\* The texts: "", "ab cd" and "a\nb\nc".
Texts == { <<>>, <<97, 98, 32, 99, 100>>, <<97, 10, 98, 10, 99>> }

BorderTypes == {"Full", "Half", "Dashed", "None"}

\* AsciiBuffer::new over a Surface one cell larger than the largest Buffer.
DrawInit ==
    /\ width = MaxBoxWidth + 1
    /\ height = MaxBoxHeight + 1
    /\ data = surface_new(width, height)
    /\ call = [op |-> "new"]
    /\ result = <<>>
    /\ grid = [p \in Coordinates |-> Unset]
    /\ writes = 0
    /\ poisoned = FALSE
    /\ written = <<>>
    /\ buffer \in [surface : {1}, bounds : DrawBounds, clip_bounds : {None}]

\* A component draws a box: buffer.square().border(..).title(..).draw().
BoxDrawCall ==
    /\ writes = 0
    /\ \E border \in BorderTypes, title \in Titles,
          title_alignment \in HorizontalAlignments :
        LET drawn == box_draw(buffer, border, title, title_alignment)
            after == draw_all(data, buffer, drawn.draws)
        IN /\ data' = after
           /\ call' = [op |-> "box_draw", border |-> border, title |-> title,
                       title_alignment |-> title_alignment,
                       outcome |-> drawn.outcome, underflow |-> drawn.underflow,
                       draws |-> drawn.draws, returned |-> drawn.returned,
                       changed |-> after # data]
    /\ result' = <<>>
    /\ writes' = writes + 1
    /\ UNCHANGED <<width, height, poisoned, written, grid, buffer>>

\* A component draws a text: buffer.text(..).draw(), wrapped or not.  What
\* textwrap gives for a width of 0 is not modelled: a text is wrapped into a
\* Buffer at least one cell wide.
TextDrawCall ==
    /\ writes = 0
    /\ \E text \in Texts, should_wrap \in BOOLEAN,
          horizontal_alignment \in HorizontalAlignments,
          vertical_alignment \in VerticalAlignments, overflow_checks \in BOOLEAN :
        /\ should_wrap => buffer.bounds.width >= 1
        /\ LET lines == IF should_wrap THEN wrap(text, buffer.bounds.width)
                        ELSE lines_of(text)
               drawn == text_draw(buffer, lines, horizontal_alignment,
                                  vertical_alignment, overflow_checks)
               after == draw_all(data, buffer, drawn.draws)
           IN /\ data' = after
              /\ call' = [op |-> "text_draw", text |-> text, lines |-> lines,
                          should_wrap |-> should_wrap,
                          horizontal_alignment |-> horizontal_alignment,
                          vertical_alignment |-> vertical_alignment,
                          outcome |-> drawn.outcome, underflow |-> drawn.underflow,
                          draws |-> drawn.draws, changed |-> after # data]
    /\ result' = <<>>
    /\ writes' = writes + 1
    /\ UNCHANGED <<width, height, poisoned, written, grid, buffer>>

\* A component draws a border on some of the sides: buffer.border(..)...draw().
BorderDrawCall ==
    /\ writes = 0
    /\ \E sides \in SUBSET {"top", "bottom", "left", "right"},
          overflow_checks \in BOOLEAN :
        LET drawn == border_draw(buffer, "Full", sides, overflow_checks)
            after == draw_all(data, buffer, drawn.draws)
        IN /\ data' = after
           /\ call' = [op |-> "border_draw", sides |-> sides,
                       outcome |-> drawn.outcome, underflow |-> drawn.underflow,
                       draws |-> drawn.draws, returned |-> drawn.returned,
                       changed |-> after # data]
    /\ result' = <<>>
    /\ writes' = writes + 1
    /\ UNCHANGED <<width, height, poisoned, written, grid, buffer>>

DrawNext ==
    \/ BoxDrawCall /\ UNCHANGED <<resolve_vars, layout_vars, builder_vars,
            button_vars>>
    \/ TextDrawCall /\ UNCHANGED <<resolve_vars, layout_vars, builder_vars,
            button_vars>>
    \/ BorderDrawCall /\ UNCHANGED <<resolve_vars, layout_vars, builder_vars,
            button_vars>>

\* A Buffer is made over a fresh Surface and one drawer draws into it.
DrawStart ==
    /\ DrawInit
    /\ ResolveIdle
    /\ LayoutIdle
    /\ BuilderIdle
    /\ ButtonIdle

SpecDraw == DrawStart /\ [][DrawNext]_vars

\* ------------------------------------------------------------------ claims on the drawers

\* The last call was a drawer's draw.
DrawerDrew == call.op \in {"box_draw", "text_draw", "border_draw"}

\* C22: a drawer's draw on a Buffer of width 0 or height 0 returns, underflows
\* in no subtraction and changes no Surface cell.
C22_ZeroSizeRendersNothing ==
    (DrawerDrew /\ (buffer.bounds.width = 0 \/ buffer.bounds.height = 0)) =>
        /\ call.outcome = "returned"
        /\ ~call.underflow
        /\ ~call.changed

\* The draws of the last box that carry a character of the title.
TitleDraws == {i \in 1..Len(call.draws) : call.draws[i].title}

\* The last box has drawn the corner (x, 0) with the glyph of its border.
CornerKept(x) ==
    \E i \in 1..Len(call.draws) :
        /\ call.draws[i].lx = x
        /\ call.draws[i].ly = 0
        /\ ~call.draws[i].title
        /\ call.draws[i].character.index =
            get_character(call.border, x, 0, buffer.bounds.width,
                          buffer.bounds.height).index

\* C23: a box with a title on a Buffer of width w and at least one row: with
\* w - 4 < 2 no title character is drawn; otherwise min(len(title), w - 4) of
\* them are, the first ones of the title in order, on row 0 in adjacent
\* columns within 2 .. w-2 that start at column 2 (Left), end two cells before
\* the right edge (Right) or leave equal room on both sides, to within a cell
\* (Center); the corners (0, 0) and (w-1, 0) are drawn with the border's glyph.
C23_BoxTitle ==
    (/\ call.op = "box_draw"
     /\ call.title # None
     /\ call.border \in {"Full", "None"}
     /\ buffer.bounds.height >= 1) =>
        LET w == buffer.bounds.width
            title == call.title[1]
            count == Min(Len(title), w - 4)
            columns == { call.draws[i].lx : i \in TitleDraws }
        IN IF w - 4 < 2 THEN TitleDraws = {}
           ELSE /\ Cardinality(TitleDraws) = count
                /\ \A i \in TitleDraws :
                    /\ call.draws[i].ly = 0
                    /\ call.draws[i].lx \in 2..(w - 2)
                /\ count > 0 =>
                    \E start \in 2..(w - 2) :
                        /\ columns = start..(start + count - 1)
                        /\ \A i \in TitleDraws :
                            call.draws[i].character.index =
                                character_from(title[call.draws[i].lx - start + 1])
                        /\ CASE call.title_alignment = "Left" -> start = 2
                             [] call.title_alignment = "Right" -> start + count = w - 2
                             [] call.title_alignment = "Center" ->
                                    (w - start - count) - start \in -1..1
                /\ CornerKept(0)
                /\ CornerKept(w - 1)

\* C24: a text draw goes through the lines with index below the Buffer's
\* height and no other: every character drawn is the character of such a line
\* at its column, the lines drawn are at most `height`, each of these lines
\* that has a character is drawn when the Buffer is two cells wide or more,
\* and having more lines than rows fails nothing (the one panic of the draw
\* is that of a Buffer of width 0).
C24_TextLinesWithinHeight ==
    call.op = "text_draw" =>
        LET h == buffer.bounds.height
            drawn == { call.draws[i].line : i \in 1..Len(call.draws) }
        IN /\ \A i \in 1..Len(call.draws) :
                LET d == call.draws[i] IN
                /\ d.line >= 0
                /\ d.line < h
                /\ d.line < Len(call.lines)
                /\ d.column < Len(call.lines[d.line + 1])
                /\ d.character.index =
                    character_from(call.lines[d.line + 1][d.column + 1])
           /\ Cardinality(drawn) <= h
           /\ buffer.bounds.width >= 2 =>
                \A line \in 0..(Min(h, Len(call.lines)) - 1) :
                    call.lines[line + 1] # <<>> => line \in drawn
           /\ call.outcome = "panicked" => buffer.bounds.width = 0

\* C24: "ab cd" wrapped to two lines and drawn into a Buffer of height 1: the
\* first line is drawn, the second is dropped and the draw returns.
C24_Witness ==
    /\ call.op = "text_draw"
    /\ call.should_wrap
    /\ call.text = <<97, 98, 32, 99, 100>>
    /\ call.lines = << <<97, 98>>, <<99, 100>> >>
    /\ buffer.bounds.height = 1
    /\ buffer.bounds.width = 3
    /\ call.outcome = "returned"
    /\ Len(call.draws) = 2
    /\ \A i \in 1..Len(call.draws) : call.draws[i].line = 0
    /\ call.changed

\* ------------------------------------------------------------------ extraction

\* An extraction that calls render for every node, hidden or not.
extracted_all(visibility) == Nodes

\* extract_ascii_ui, for one camera and no RenderLayers: the nodes whose
\* component's render is called, those whose InheritedVisibility is not false.
extracted(visibility) == {e \in Nodes : visibility[e]}

\* extract_ascii_ui runs in the ExtractSchedule, once the frame's PostUpdate
\* (both phases of the walker) is over.
extract_ascii_ui ==
    /\ phase = "update"
    /\ ~panicked
    /\ passes >= 1
    /\ rendered.pass # passes
    /\ rendered' = [pass |-> passes,
                    hidden |-> {e \in Nodes : ~inherited_visibility[e]},
                    nodes |-> extracted(inherited_visibility)]
    /\ UNCHANGED <<tree_vars, target_res, node_position, local_bounds, global_bounds,
                   is_dirty, is_changed, visibility_changed, node_changed, phase,
                   panicked, entities, dirty, events, wrote, quiet, edited, passes,
                   edits, inherited_visibility>>

\* A tree below the camera that extract_ascii_ui renders to, laid out by the
\* walker of ui/position.rs and extracted every frame; any of its nodes may
\* be hidden.
RenderInit ==
    /\ TreeSpawned
    /\ walker = "position"
    /\ kind[1] = "camera"
    /\ inherited_visibility \in [Entity -> BOOLEAN]
    /\ inherited_visibility[1]
    /\ SurfaceIdle
    /\ ResolveIdle
    /\ BufferIdle
    /\ BuilderIdle
    /\ ButtonIdle

RenderNext ==
    \/ SetPosition /\ UNCHANGED <<surface_vars, resolve_vars, buffer_vars, builder_vars,
            button_vars>>
    \/ ChangeVisibility /\ UNCHANGED <<surface_vars, resolve_vars, buffer_vars, builder_vars,
            button_vars>>
    \/ mark_positions_dirty /\ UNCHANGED <<surface_vars, resolve_vars, buffer_vars, builder_vars,
            button_vars>>
    \/ update_positions /\ UNCHANGED <<surface_vars, resolve_vars, buffer_vars, builder_vars,
            button_vars>>
    \/ extract_ascii_ui /\ UNCHANGED <<surface_vars, resolve_vars, buffer_vars, builder_vars,
            button_vars>>

SpecRender == RenderInit /\ [][RenderNext]_vars

\* Phase 2 has just run and nothing was edited since.
Resolved2 == phase = "update" /\ passes >= 1 /\ ~edited /\ ~panicked

\* C25: an extraction calls render for no node that is hidden; and Phase 2
\* resolves a dirty node whatever its visibility: once it has run, every node
\* Phase 1 marked, hidden or not, holds the Bounds its Position resolves to
\* against its parent's Bounds, and no dirty flag.
C25_HiddenNodes ==
    /\ rendered.nodes \cap rendered.hidden = {}
    /\ Resolved2 =>
        \A e \in dirty :
                /\ global_bounds[e] = create_bounds(node_position[e], ParentBoundsOf(e))
                /\ ~is_dirty[e]

\* C25: a node was hidden, Phase 1 marked it, Phase 2 gave it Bounds, and the
\* extraction that followed did not render it while it rendered its parent.
C25_Witness ==
    /\ Resolved2
    /\ rendered.pass = passes
    /\ \E e \in dirty :
        /\ ~inherited_visibility[e]
        /\ e \in rendered.hidden
        /\ e \notin rendered.nodes
        /\ parent_of[e] \in rendered.nodes
        /\ global_bounds[e] = create_bounds(node_position[e], ParentBoundsOf(e))
        /\ global_bounds[e] # bounds_default

\* ------------------------------------------------------------------ AsciiUiCommands

\* The calls made on one builder.
MaxCommands == 4

\* The positional calls of the builder.
PositionalCalls ==
    {"top", "bottom", "left", "right", "relative", "centered", "fill", "aligned"}

\* The AsciiPosition a positional call hands to push_from_pos; `depth` is
\* entity_stack.len(), the layer `relative` gives.
push_position(name, depth) ==
    CASE name = "top" -> position_top(Px(1))
      [] name = "bottom" -> position_bottom(Px(1))
      [] name = "left" -> position_left(Px(1))
      [] name = "right" -> position_right(Px(1))
      [] name = "relative" -> Relative(0, 0, Px(1), Px(1), depth)
      [] name = "centered" -> Aligned(Px(1), Px(1), "Center", "Center")
      [] name = "fill" -> Aligned(Percent(1, 1), Percent(1, 1), "Center", "Center")
      [] name = "aligned" -> Aligned(Px(1), Px(1), "Left", "Top")

\* VecDeque::pop_front in the place of pop_back.
pop_front(stack) == [popped |-> Head(stack), rest |-> Tail(stack)]

\* VecDeque::pop_back on a stack that is not empty.
pop_back(stack) ==
    [popped |-> stack[Len(stack)], rest |-> SubSeq(stack, 1, Len(stack) - 1)]

\* Commands::ascii_ui: an empty entity is spawned (entity 1) and is current.
BuilderInit ==
    commands = [current_entity |-> 1, entity_stack |-> <<>>, parents |-> <<0>>,
                positions |-> << [tag |-> "None"] >>, run |-> <<>>, before |-> 0,
                stack_before |-> <<>>]

\* A positional call: push_from_pos spawns the node (the next entity), makes
\* it a child of the current entity, pushes that entity and makes the node
\* current.
PushCall ==
    /\ Len(commands.run) < MaxCommands
    /\ \E name \in PositionalCalls :
        LET parent == commands.current_entity
            entity == Len(commands.parents) + 1
        IN commands' =
            [current_entity |-> entity,
             entity_stack |-> Append(commands.entity_stack, parent),
             parents |-> Append(commands.parents, parent),
             positions |-> Append(commands.positions,
                                  push_position(name, Len(commands.entity_stack))),
             run |-> Append(commands.run, name),
             before |-> parent,
             stack_before |-> commands.entity_stack]

\* AsciiUiCommands::pop
PopCall ==
    /\ Len(commands.run) < MaxCommands
    /\ LET popped == pop_back(commands.entity_stack) IN
       commands' =
        [commands EXCEPT
            !.current_entity = IF commands.entity_stack # <<>> THEN popped.popped ELSE @,
            !.entity_stack = IF commands.entity_stack # <<>> THEN popped.rest ELSE @,
            !.run = Append(@, "pop"),
            !.before = commands.current_entity,
            !.stack_before = commands.entity_stack]

BuilderNext ==
    \/ PushCall /\ UNCHANGED <<surface_vars, resolve_vars, layout_vars, buffer_vars,
            button_vars>>
    \/ PopCall /\ UNCHANGED <<surface_vars, resolve_vars, layout_vars, buffer_vars,
            button_vars>>

\* A builder is made by ascii_ui(); nothing else is in play.
BuilderStart ==
    /\ BuilderInit
    /\ SurfaceIdle
    /\ ResolveIdle
    /\ LayoutIdle
    /\ BufferIdle
    /\ ButtonIdle

SpecBuilder == BuilderStart /\ [][BuilderNext]_vars

\* The calls made are n positional calls followed by n pops, for some n >= 1.
PushesThenPops ==
    LET n == Len(commands.run) \div 2 IN
    /\ n >= 1
    /\ Len(commands.run) = 2 * n
    /\ \A i \in 1..n : commands.run[i] \in PositionalCalls
    /\ \A i \in (n + 1)..(2 * n) : commands.run[i] = "pop"

\* C26: a positional call spawns a new node as a child of the entity that was
\* current and makes the node current; a pop makes current the parent of the
\* node that was current, which is the entity pushed last among those not yet
\* popped; a pop on an empty stack changes nothing; and after n positional
\* calls and then n pops the initial parent is current again.
C26_PushPop ==
    LET run == commands.run
        last == IF run = <<>> THEN "none" ELSE run[Len(run)]
    IN /\ last \in PositionalCalls =>
            /\ commands.current_entity = Len(commands.parents)
            /\ commands.current_entity \notin
                    {commands.before} \cup {commands.stack_before[i] :
                                                i \in 1..Len(commands.stack_before)}
            /\ commands.parents[commands.current_entity] = commands.before
       /\ (last = "pop" /\ commands.stack_before # <<>>) =>
            /\ commands.current_entity = commands.parents[commands.before]
            /\ commands.current_entity =
                    commands.stack_before[Len(commands.stack_before)]
            /\ Len(commands.entity_stack) = Len(commands.stack_before) - 1
       /\ (last = "pop" /\ commands.stack_before = <<>>) =>
            /\ commands.current_entity = commands.before
            /\ commands.entity_stack = <<>>
       /\ PushesThenPops => commands.current_entity = 1 /\ commands.entity_stack = <<>>

\* C26: two positional calls and two pops: the initial parent is current, and
\* the two nodes hang below each other.
C26_Witness ==
    /\ PushesThenPops
    /\ Len(commands.run) = 4
    /\ commands.parents = <<0, 1, 2>>
    /\ commands.current_entity = 1
    /\ commands.before = 2

\* ------------------------------------------------------------------ a poisoned lock

\* A thread panics while it holds the lock of the cells: the Mutex is poisoned
\* from then on.
PoisonLock ==
    /\ ~poisoned
    /\ poisoned' = TRUE
    /\ call' = [op |-> "poison"]
    /\ UNCHANGED <<width, height, data, result, grid, writes, written>>

PoisonNext ==
    \/ SetCharacterCall /\ UNCHANGED <<resolve_vars, layout_vars, buffer_vars, builder_vars,
            button_vars>>
    \/ AsByteVecCall /\ UNCHANGED <<resolve_vars, layout_vars, buffer_vars, builder_vars,
            button_vars>>
    \/ ClearCall /\ UNCHANGED <<resolve_vars, layout_vars, buffer_vars, builder_vars,
            button_vars>>
    \/ PoisonLock /\ UNCHANGED <<resolve_vars, layout_vars, buffer_vars, builder_vars,
            button_vars>>

\* A Surface whose lock may get poisoned between the calls on it.
SpecPoison == SurfaceInit /\ [][PoisonNext]_vars

\* C27: a call of set_character, as_byte_vec or clear on a Surface whose lock
\* is poisoned panics.
C27_PoisonIsFatal ==
    (poisoned /\ call.op \in {"set_character", "as_byte_vec", "clear"}) =>
        call.outcome = "panicked"

\* ------------------------------------------------------------------ more claims on the resolver and the walker

\* C28: format_bounds and create_bounds of a VerticalSlice or HorizontalSlice
\* position end in todo!() and give no Bounds.
C28_SlicesNotImplemented ==
    (/\ resolve_op \in {"format_bounds", "create_bounds"}
     /\ position.tag \in {"VerticalSlice", "HorizontalSlice"}) =>
        /\ resolve_out = Todo
        /\ ~IsBounds(resolve_out)

\* C28: format_bounds was applied to a VerticalSlice position and unwound.
C28_Witness ==
    /\ resolve_op = "format_bounds"
    /\ position = VerticalSlice(2, 0)
    /\ resolve_out = Todo

\* C29: once Phase 2 has run no node is dirty, whether the resolution went
\* through or unwound, and the flags stay clear until the next Phase 1.
C29_NoDirtyAfterPhase2 ==
    (phase = "update" /\ passes >= 1) => \A e \in Entity : ~is_dirty[e]

\* C29: Phase 1 marked nodes, Phase 2 resolved them to new Bounds, and none of
\* them is dirty.
C29_Witness ==
    /\ phase = "update"
    /\ passes >= 1
    /\ ~panicked
    /\ wrote
    /\ Cardinality(dirty) >= 2
    /\ \A e \in dirty : ~is_dirty[e]

\* C30: Phase 2 starts from what a complete Phase 1 left: no change is still
\* unread and every node Phase 1 found changed is dirty; and when the tick is
\* over every such node has been read, marked and resolved: in a tree
\* whose root can be looked up it holds the Bounds it resolves to.
C30_MarkedAndResolvedSameTick ==
    /\ phase = "resolve" =>
        /\ \A e \in Nodes : ~is_changed[e]
        /\ \A e \in entities : is_dirty[e]
    /\ (phase = "update" /\ passes >= 1 /\ ~edited /\ ~panicked) =>
        \A e \in entities :
            /\ e \in dirty
            /\ ~is_changed[e]
            /\ ~is_dirty[e]
            /\ kind[1] # "empty" => get_global_bounds(e, global_bounds) = Some(global_bounds[e])

\* C30: a system assigned a node's Position after the first tick, and the
\* tick that followed marked the node and resolved it to other Bounds.
C30_Witness ==
    /\ phase = "update"
    /\ passes >= 2
    /\ ~edited
    /\ ~panicked
    /\ wrote
    /\ kind[1] = "camera"
    /\ \E e \in entities :
        /\ node_position[e] # Relative(1, 0, Px(2), Percent(1, 2), 0)
        /\ get_global_bounds(e, global_bounds) = Some(global_bounds[e])

\* ------------------------------------------------------------------ compositing

\* The Buffers that draw on one Surface: at the Surface's origin or one cell
\* inside it, on any layer; the extent plays no part in a write.
ComposeBuffers ==
    { [surface |-> 1, bounds |-> AsciiBounds(at, at, MaxDim, MaxDim, layer),
       clip_bounds |-> None] : at \in 0..1, layer \in 0..MaxLayer }

\* The Set characters of Characters.
SetCharacters == { c \in Characters : IsSet(c) }

\* AsciiSurface::new(MaxDim, 2): a fresh Surface of two rows; the Buffers over
\* it are chosen write by write.
ComposeInit ==
    /\ ResolveIdle
    /\ LayoutIdle
    /\ BufferIdle
    /\ BuilderIdle
    /\ ButtonIdle
    /\ width = MaxDim
    /\ height = 2
    /\ data = surface_new(width, height)
    /\ call = [op |-> "new"]
    /\ result = <<>>
    /\ grid = [p \in Coordinates |-> Unset]
    /\ writes = 0
    /\ poisoned = FALSE
    /\ written = <<>>

\* A caller writes a Set character on a cell of the Surface.
SurfaceWrite ==
    /\ writes < MaxWrites
    /\ \E x \in 0..(width - 1), y \in 0..(height - 1), c \in SetCharacters :
        /\ data' = set_character(x, y, c)
        /\ call' = [op |-> "set_character", x |-> x, y |-> y, character |-> c]
        /\ written' = Append(written, [x |-> x, y |-> y, character |-> c])
    /\ result' = <<>>
    /\ writes' = writes + 1
    /\ UNCHANGED <<width, height, poisoned, grid>>

\* A component draws a Set character through one of the Buffers over the
\* Surface, at a local coordinate that falls on a cell of the Surface: the
\* Buffer translates the coordinate, stamps its layer on the character and
\* hands both to the Surface.
BufferWrite ==
    /\ writes < MaxWrites
    /\ \E buf \in ComposeBuffers, lx \in -1..(MaxDim - 1), ly \in -1..(MaxDim - 1),
          c \in SetCharacters :
        LET surface_writes == buffer_set_character(buf, lx, ly, c) IN
        /\ surface_writes # <<>>
        /\ InRange(surface_writes[1].x, surface_writes[1].y)
        /\ data' = set_character(surface_writes[1].x, surface_writes[1].y,
                                 surface_writes[1].character)
        /\ call' = [op |-> "buffer_set_character", x |-> surface_writes[1].x,
                    y |-> surface_writes[1].y,
                    character |-> surface_writes[1].character]
        /\ written' = Append(written, surface_writes[1])
    /\ result' = <<>>
    /\ writes' = writes + 1
    /\ UNCHANGED <<width, height, poisoned, grid>>

ComposeNext ==
    \/ SurfaceWrite /\ UNCHANGED <<resolve_vars, layout_vars, buffer_vars, builder_vars,
            button_vars>>
    \/ BufferWrite /\ UNCHANGED <<resolve_vars, layout_vars, buffer_vars, builder_vars,
            button_vars>>

\* Set characters written on a fresh Surface, directly and through Buffers.
SpecCompose == ComposeInit /\ [][ComposeNext]_vars

\* The writes handed to the Surface for the cell (x, y), in order.
WritesAt(x, y) == SelectSeq(written, LAMBDA w : w.x = x /\ w.y = y)

\* The largest layer among the writes ws.
MaxLayerOf(ws) ==
    CHOOSE l \in { ws[i].character.layer : i \in 1..Len(ws) } :
        \A i \in 1..Len(ws) : ws[i].character.layer <= l

\* The character of the last of the writes ws that carry the largest layer.
LastOfMaxLayer(ws) ==
    LET at == { i \in 1..Len(ws) : ws[i].character.layer = MaxLayerOf(ws) }
    IN ws[CHOOSE i \in at : \A j \in at : j <= i].character

\* C31: after any Set writes in range on a fresh Surface, every cell holds
\* the character of the last write to it among those with the largest layer
\* written to it (Unset when none was): position and issuing Buffer play no part.
C31_LastOfMaxLayerWins ==
    \A x \in 0..(width - 1), y \in 0..(height - 1) :
        data[calc_index(x, y)[1] + 1] =
            IF WritesAt(x, y) = <<>> THEN Unset ELSE LastOfMaxLayer(WritesAt(x, y))

\* C31: a cell away from the origin was written twice on the largest layer,
\* by the Surface's caller and through a Buffer, with different characters,
\* and holds the later one.
C31_Witness ==
    /\ Len(WritesAt(1, 1)) = 2
    /\ WritesAt(1, 1)[1].character.layer = MaxLayer
    /\ WritesAt(1, 1)[2].character.layer = MaxLayer
    /\ WritesAt(1, 1)[1].character # WritesAt(1, 1)[2].character
    /\ call.op = "buffer_set_character"
    /\ data[calc_index(1, 1)[1] + 1] = WritesAt(1, 1)[2].character

\* ------------------------------------------------------------------ a Padded position

\* C32: a Padded position whose padding leaves room in the parent
\* (left + right < parent.width, top + bottom < parent.height) resolves to the
\* parent's rectangle inset by the padding: x = parent.x + left,
\* y = parent.y + top, width = parent.width - left - right,
\* height = parent.height - top - bottom, wherever the parent lies.
C32_PaddedInsetsParent ==
    (/\ resolve_op \in {"format_bounds", "create_bounds"}
     /\ position.tag = "Padded"
     /\ position.left + position.right < parent_bounds.width
     /\ position.top + position.bottom < parent_bounds.height) =>
        /\ IsBounds(resolve_out)
        /\ resolve_out.x = parent_bounds.x + position.left
        /\ resolve_out.y = parent_bounds.y + position.top
        /\ resolve_out.width =
              parent_bounds.width - position.left - position.right
        /\ resolve_out.height =
              parent_bounds.height - position.top - position.bottom

\* ------------------------------------------------------------------ layout consistency

\* The Bounds an entity holds for its children: a camera's are its target
\* resolution, a node's are its cached Bounds.
HeldBounds(e) == IF kind[e] = "camera" THEN camera_bounds_position ELSE global_bounds[e]

\* C33: when a tick of the walker of ui/position.rs is complete, whatever
\* positions were edited, cached Bounds written and resolutions changed
\* before it, every node with a parent, in a tree below a camera, holds the
\* Bounds its position resolves to against the Bounds its parent now holds.
C33_LayoutConsistency ==
    (walker = "position" /\ kind[1] = "camera" /\ Resolved2) =>
        \A e \in Nodes :
            parent_of[e] # 0 =>
                global_bounds[e] = create_bounds(node_position[e], HeldBounds(parent_of[e]))

\* ------------------------------------------------------------------ AsciiButton

\* Calls of update_components in one behaviour.
MaxUpdates == 4

\* AsciiCursor
CursorSome(x, y) == [tag |-> "Some", x |-> x, y |-> y]

CursorNone == [tag |-> "None"]

\* AsciiButton::update that sends the hover events without looking at is_hovering.
update_unconditional_events(is_hovering, cursor, just_pressed, bounds) ==
    IF cursor = None
    THEN [is_hovering |-> is_hovering, sent |-> <<>>]
    ELSE LET within == /\ cursor[1].tag = "Some"
                       /\ is_within(bounds, U32AsI32(cursor[1].x), U32AsI32(cursor[1].y))
             hover_sent ==
                IF cursor[1].tag # "Some" THEN <<>>
                ELSE IF within THEN <<"HoverEntered", "MarkDirty">>
                ELSE <<"HoverExited", "MarkDirty">>
             now == IF cursor[1].tag = "Some" THEN within ELSE is_hovering
         IN [is_hovering |-> now,
             sent |-> IF just_pressed /\ now THEN Append(hover_sent, "ButtonClicked")
                      ELSE hover_sent]

\* AsciiButton::update that asks for a re-render only when the hover begins.
update_no_dirty_on_exit(is_hovering, cursor, just_pressed, bounds) ==
    IF cursor = None
    THEN [is_hovering |-> is_hovering, sent |-> <<>>]
    ELSE LET within == /\ cursor[1].tag = "Some"
                       /\ is_within(bounds, U32AsI32(cursor[1].x), U32AsI32(cursor[1].y))
             hover_sent ==
                IF cursor[1].tag # "Some" THEN <<>>
                ELSE IF within
                THEN IF ~is_hovering THEN <<"HoverEntered", "MarkDirty">> ELSE <<>>
                ELSE IF is_hovering THEN <<"HoverExited">> ELSE <<>>
             now == IF cursor[1].tag = "Some" THEN within ELSE is_hovering
         IN [is_hovering |-> now,
             sent |-> IF just_pressed /\ now THEN Append(hover_sent, "ButtonClicked")
                      ELSE hover_sent]

\* AsciiButton::update: is_hovering after the call and the events sent, in
\* order.  `cursor` is what get_single gave: None when the primary window has
\* no AsciiCursor.
update(is_hovering, cursor, just_pressed, bounds) ==
    IF cursor = None
    THEN [is_hovering |-> is_hovering, sent |-> <<>>]
    ELSE LET within == /\ cursor[1].tag = "Some"
                       /\ is_within(bounds, U32AsI32(cursor[1].x), U32AsI32(cursor[1].y))
             hover_sent ==
                IF cursor[1].tag # "Some" THEN <<>>
                ELSE IF within
                THEN IF ~is_hovering THEN <<"HoverEntered", "MarkDirty">> ELSE <<>>
                ELSE IF is_hovering THEN <<"HoverExited", "MarkDirty">> ELSE <<>>
             now == IF cursor[1].tag = "Some" THEN within ELSE is_hovering
         IN [is_hovering |-> now,
             sent |-> IF just_pressed /\ now THEN Append(hover_sent, "ButtonClicked")
                      ELSE hover_sent]

\* ------------------------------------------------------------------ button actions

\* The Bounds the button's node holds when it is updated.
ButtonBounds == { AsciiBounds(1, 1, 1, 1, 1), AsciiBounds(0, 0, 2, 1, 1) }

\* What get_single gives for the cursor of the primary window.
Cursors ==
    {None, Some(CursorNone)}
        \cup { Some(CursorSome(x, y)) : x \in 0..MaxExtent, y \in 0..MaxExtent }

\* AsciiButton::from_string: the button does not hover.
ButtonInit ==
    button = [is_hovering |-> FALSE, bounds |-> bounds_default, cursor |-> None,
              just_pressed |-> FALSE, was_hovering |-> FALSE, sent |-> <<>>,
              hover_events |-> <<>>, updates |-> 0]

\* update_components for the button's entity: update is called with the
\* cursor, the mouse input and the node's Bounds of this frame, unless the
\* entity is hidden.
update_components ==
    /\ button.updates < MaxUpdates
    /\ \E visible \in BOOLEAN, cursor \in Cursors, just_pressed \in BOOLEAN,
          bounds \in ButtonBounds :
        LET done == IF visible
                    THEN update(button.is_hovering, cursor, just_pressed, bounds)
                    ELSE [is_hovering |-> button.is_hovering, sent |-> <<>>]
        IN button' =
            [is_hovering |-> done.is_hovering,
             bounds |-> bounds,
             cursor |-> cursor,
             just_pressed |-> just_pressed,
             was_hovering |-> button.is_hovering,
             sent |-> done.sent,
             hover_events |-> button.hover_events \o
                SelectSeq(done.sent, LAMBDA ev : ev \in {"HoverEntered", "HoverExited"}),
             updates |-> button.updates + 1]

ButtonNext ==
    update_components /\ UNCHANGED <<surface_vars, resolve_vars, layout_vars, buffer_vars,
            builder_vars>>

\* A button is spawned; nothing else is in play.
ButtonStart ==
    /\ ButtonInit
    /\ SurfaceIdle
    /\ ResolveIdle
    /\ LayoutIdle
    /\ BufferIdle
    /\ BuilderIdle

SpecButton == ButtonStart /\ [][ButtonNext]_vars

\* ------------------------------------------------------------------ claims on the button

\* The number of events named ev the last update sent.
Sent(ev) == Len(SelectSeq(button.sent, LAMBDA e : e = ev))

\* C34: the hover events a button sends alternate, the first being Entered,
\* and is_hovering is true exactly when the last of them is Entered.
C34_HoverEventsAlternate ==
    /\ \A i \in 1..Len(button.hover_events) :
        button.hover_events[i] = IF i % 2 = 1 THEN "HoverEntered" ELSE "HoverExited"
    /\ button.is_hovering = (Len(button.hover_events) % 2 = 1)

\* C34: the button was entered, left and entered again, with an update in
\* between that changed nothing.
C34_Witness ==
    /\ button.hover_events = <<"HoverEntered", "HoverExited", "HoverEntered">>
    /\ button.updates = 4
    /\ button.is_hovering

\* C35: ButtonClicked is sent only by an update in which the left button was
\* just pressed and the cursor is at a position within the button's Bounds;
\* never with the cursor absent or outside them.
C35_ClickNeedsCursorInside ==
    Sent("ButtonClicked") > 0 =>
        /\ button.just_pressed
        /\ button.cursor # None
        /\ button.cursor[1].tag = "Some"
        /\ is_within(button.bounds, U32AsI32(button.cursor[1].x),
                     U32AsI32(button.cursor[1].y))

\* C36: an update sends one AsciiMarkDirtyEvent when it changes is_hovering
\* and none when it does not.
C36_DirtyOnHoverChange ==
    button.updates > 0 =>
        Sent("MarkDirty") = IF button.is_hovering # button.was_hovering THEN 1 ELSE 0

\* C36: an update ended the hover and sent one AsciiMarkDirtyEvent, after one
\* that began it.
C36_Witness ==
    /\ button.was_hovering
    /\ ~button.is_hovering
    /\ Sent("MarkDirty") = 1
    /\ button.hover_events = <<"HoverEntered", "HoverExited">>

\* ------------------------------------------------------------------ a cleared Surface

\* C37: whatever set_character and clear calls were made on a Surface made by
\* new(width, height), as_byte_vec returns 4 * width * height bytes
\* (4 * len()); and after clear the Surface holds width * height cells, all
\* Unset, and a Set character written in range is taken.
C37_SizeKeptAcrossClear ==
    /\ call.op = "as_byte_vec" => Len(result) = 4 * surface_len
    /\ call.op = "clear" =>
        /\ Len(data) = surface_len
        /\ \A i \in 1..Len(data) : data[i] = Unset
    /\ (WroteInRange /\ IsSet(call.character) /\ ~IsSet(call.found[1])) => call.changed
    /\ (call.op = "set_character" /\ InRange(call.x, call.y)) => call.found # None

\* ------------------------------------------------------------------ layers of derived Buffers

\* C38: a Buffer derived by sub_buffer, relative, center, top, bottom, left
\* or right is on a layer above its source's, so the Surface's layer test lets
\* a character drawn through it replace one drawn through the source; a Buffer
\* derived by padding or clip is on its source's layer.
C38_DerivedLayerAboveSource ==
    /\ call.op \in {"sub_buffer", "relative", "center", "top", "bottom", "left", "right"} =>
        /\ buffer.bounds.layer > call.source.bounds.layer
        /\ \A below, above \in SetCharacters :
            layer_test(with_layer(above, buffer.bounds.layer),
                       with_layer(below, call.source.bounds.layer))
    /\ call.op \in {"padding", "clip"} =>
        buffer.bounds.layer = call.source.bounds.layer

\* C38: the component clipped the Buffer it was handed, which kept the layer,
\* and sub_buffer then gave a Buffer one layer above it.
C38_Witness ==
    /\ call.op = "sub_buffer"
    /\ call.source.clip_bounds # None
    /\ call.source.bounds.layer = MaxLayer
    /\ buffer.bounds.layer = MaxLayer + 1

\* ------------------------------------------------------------------ where the drawers write

\* The draws of the last drawer call that reach a cell of the Surface.
SurfaceDraws ==
    { i \in 1..Len(call.draws) :
        LET at == buffer_absolute(buffer.bounds, call.draws[i].lx, call.draws[i].ly)
        IN InRange(at.x, at.y) }

\* Is the local coordinate one of the Buffer's width by height cells?
InsideBuffer(lx, ly) ==
    /\ 0 <= lx
    /\ lx < buffer.bounds.width
    /\ 0 <= ly
    /\ ly < buffer.bounds.height

\* The local coordinates at which the last border draw set the glyph of a side.
EdgeCells(side) ==
    { <<call.draws[i].lx, call.draws[i].ly>> :
        i \in { j \in 1..Len(call.draws) :
                    call.draws[j].character.index = border_side("Full", side) } }

\* C39: on a Buffer at least 2 wide and 2 high, a border draw with any sides
\* writes only cells of the Buffer, the top edge on row 0, the bottom edge on
\* row height - 1, the left edge on column 0, the right on column width - 1.
C39_BorderInsideBuffer ==
    (call.op = "border_draw" /\ buffer.bounds.width >= 2 /\ buffer.bounds.height >= 2) =>
        /\ \A i \in SurfaceDraws : InsideBuffer(call.draws[i].lx, call.draws[i].ly)
        /\ \A c \in EdgeCells("top") : c[2] = 0
        /\ \A c \in EdgeCells("bottom") : c[2] = buffer.bounds.height - 1
        /\ \A c \in EdgeCells("left") : c[1] = 0
        /\ \A c \in EdgeCells("right") : c[1] = buffer.bounds.width - 1

\* C40: a text draw, whatever the alignments and the text, writes only cells
\* of the Buffer: local coordinates 0 <= x < width and 0 <= y < height.
\* Stated for Buffers of at least one cell, where no bound of a loop underflows.
C40_TextInsideBuffer ==
    (call.op = "text_draw" /\ buffer.bounds.width >= 1 /\ buffer.bounds.height >= 1) =>
        \A i \in SurfaceDraws : InsideBuffer(call.draws[i].lx, call.draws[i].ly)

====
